---- MODULE Spec2Model ----
(***************************************************************************)
(* Hook handlers of the copilot workflow framework: the PreToolUse policy  *)
(* gate (.github/hooks/pre_tool_use.py) and the context resolver           *)
(* (.github/hooks/hook_utils.py).                                          *)
(*                                                                         *)
(* Text is modelled as a sequence of lexemes ("atoms"): a command such as  *)
(*   cd /repo/.worktrees/foo && git commit -m x                            *)
(* is <<"cd"," ","/repo/.worktrees/foo"," ","&&"," ","git"," ","commit",   *)
(* " ","-m"," ","x">>.  The regular expressions and substring tests of the *)
(* code are evaluated on these sequences by a small matcher; the facts     *)
(* about the characters inside an atom that the code can observe (case,    *)
(* leading slash, containing "main", width) are given by tables.           *)
(***************************************************************************)
EXTENDS Integers, Sequences, FiniteSets, TLC

\* Python's None for optional strings, and for optional text (atom sequences).
None == "<none>"
NoneT == <<None>>

\* Python truthiness of an optional string / optional text.
Truthy(s) == s # None /\ s # ""
TruthyT(t) == t # NoneT /\ t # <<>>

-----------------------------------------------------------------------------
(* Atoms and their character-level facts *)

\* " " is one space; "  " a longer run of blanks; "\n" a line end.
WsAtoms == {" ", "  ", "\n"}
SepAtoms == {";", "&&", "|"}
QuoteAtoms == {"\"", "'"}

\* Lower-casing (str.lower, re.IGNORECASE) of the atoms that have upper case.
Lower(a) ==
    CASE a = "DROP" -> "drop"
      [] a = "TABLE" -> "table"
      [] a = "DATABASE" -> "database"
      [] a = "GIT" -> "git"
      [] a = "Push-Location" -> "push-location"
      [] a = "Remove-Item" -> "remove-item"
      [] a = "-Recurse" -> "-recurse"
      [] a = "-Force" -> "-force"
      [] a = "-C" -> "-c"
      [] a = "Developer" -> "developer"
      [] OTHER -> a

\* Atoms whose first character is / or \ (a path rooted at the filesystem root).
RootedAtoms ==
    {"/", "/tmp/x", "/repo", "/repo/src/a.py", "/repo/.worktrees",
     "/repo/.worktrees/foo", "/repo/.worktrees/foo/a.py",
     "/repo/.worktrees/gone", "/repo/.worktrees/gone/a.py", "/elsewhere",
     "/worktrees/foo"}

\* Atoms whose lower-cased text contains the substring "main".
MainAtoms == {"main", "mainline"}

\* Atoms that begin / end with a word character (for \b).
NonWordStart ==
    WsAtoms \cup SepAtoms \cup QuoteAtoms \cup RootedAtoms
        \cup {"-b", "-c", "-C", "-m", "-rf", "-Recurse", "-Force", "-d"}
NonWordEnd == WsAtoms \cup SepAtoms \cup QuoteAtoms \cup {"/"}

\* len(): the number of characters of a text.
RECURSIVE Width(_)
Width(t) == IF t = <<>> THEN 0 ELSE Len(Head(t)) + Width(Tail(t))

-----------------------------------------------------------------------------
(* A matcher for the regular expressions of the hooks, on atom sequences.  *)
(* A pattern is a sequence of elements:                                    *)
(*   lit s      the atom s, case-sensitive                                 *)
(*   ilit s     the atom s, ignoring case                                  *)
(*   ws         \s+                                                        *)
(*   quote      ["']                                                       *)
(*   rooted     an atom that begins with / or \                            *)
(*   iword s    \bs\b ignoring case                                        *)
(*   dotstar    .*                                                         *)
(*   cap c      a capturing group ([class]+), c the excluded characters    *)
(*   alt        (?:a|b|c), the alternatives being patterns                 *)

Lit(s) == [t |-> "lit", s |-> s]
ILit(s) == [t |-> "ilit", s |-> s]
Ws == [t |-> "ws", s |-> ""]
Quote == [t |-> "quote", s |-> ""]
Rooted == [t |-> "rooted", s |-> ""]
IWord(s) == [t |-> "iword", s |-> s]
DotStar == [t |-> "dotstar", s |-> ""]
Cap(c) == [t |-> "cap", s |-> c]
Alt(alts) == [t |-> "alt", s |-> "", alts |-> alts]

\* Membership of an atom in a negated character class.
InClass(c, a) ==
    CASE c = "noquote" -> a \notin QuoteAtoms                 \* [^"']
      [] c = "nosep" -> a \notin (WsAtoms \cup SepAtoms)      \* [^\s;&|]
      [] c = "nows" -> a \notin WsAtoms                       \* \S, [^\s]

NoMatch == [ok |-> FALSE, cap |-> <<>>]

\* The end (exclusive) of the longest run of atoms from i that satisfy P.
RECURSIVE RunEnd(_, _, _)
RunEnd(cmd, i, S) ==
    IF i <= Len(cmd) /\ cmd[i] \in S THEN RunEnd(cmd, i + 1, S) ELSE i

ClassAtoms(cmd, c) == {cmd[j] : j \in {j \in 1..Len(cmd) : InClass(c, cmd[j])}}

\* re.match of pat[k..] at position i of cmd; cap is the group captured so far.
RECURSIVE MatchAt(_, _, _, _, _)
MatchAt(pat, k, cmd, i, cap) ==
    IF k > Len(pat) THEN [ok |-> TRUE, cap |-> cap]
    ELSE LET e == pat[k] IN
      CASE e.t = "lit" ->
             IF i <= Len(cmd) /\ cmd[i] = e.s
             THEN MatchAt(pat, k + 1, cmd, i + 1, cap) ELSE NoMatch
        [] e.t = "ilit" ->
             IF i <= Len(cmd) /\ Lower(cmd[i]) = Lower(e.s)
             THEN MatchAt(pat, k + 1, cmd, i + 1, cap) ELSE NoMatch
        [] e.t = "quote" ->
             IF i <= Len(cmd) /\ cmd[i] \in QuoteAtoms
             THEN MatchAt(pat, k + 1, cmd, i + 1, cap) ELSE NoMatch
        [] e.t = "rooted" ->
             IF i <= Len(cmd) /\ cmd[i] \in RootedAtoms
             THEN MatchAt(pat, k + 1, cmd, i + 1, cap) ELSE NoMatch
        [] e.t = "iword" ->
             IF /\ i <= Len(cmd)
                /\ Lower(cmd[i]) = Lower(e.s)
                /\ (i = 1 \/ cmd[i - 1] \in NonWordEnd)
                /\ (i = Len(cmd) \/ cmd[i + 1] \in NonWordStart)
             THEN MatchAt(pat, k + 1, cmd, i + 1, cap) ELSE NoMatch
        [] e.t = "ws" ->
             LET j == RunEnd(cmd, i, WsAtoms) IN
             IF j > i THEN MatchAt(pat, k + 1, cmd, j, cap) ELSE NoMatch
        [] e.t = "cap" ->
             LET j == RunEnd(cmd, i, ClassAtoms(cmd, e.s)) IN
             IF j > i
             THEN MatchAt(pat, k + 1, cmd, j, SubSeq(cmd, i, j - 1))
             ELSE NoMatch
        [] e.t = "dotstar" ->
             LET js == {j \in i..(Len(cmd) + 1) :
                          /\ \A n \in i..(j - 1) : cmd[n] # "\n"
                          /\ MatchAt(pat, k + 1, cmd, j, cap).ok} IN
             IF js = {} THEN NoMatch
             ELSE MatchAt(pat, k + 1, cmd,
                          CHOOSE j \in js : \A j2 \in js : j2 <= j, cap)
        [] e.t = "alt" ->
             LET rest == SubSeq(pat, k + 1, Len(pat))
                 ok == {a \in 1..Len(e.alts) :
                          MatchAt(e.alts[a] \o rest, 1, cmd, i, cap).ok} IN
             IF ok = {} THEN NoMatch
             ELSE MatchAt(e.alts[CHOOSE a \in ok : \A a2 \in ok : a <= a2]
                              \o rest, 1, cmd, i, cap)

\* pattern.search(cmd): the leftmost match; cap is group(1).
Search(pat, cmd) ==
    LET starts == {i \in 1..Len(cmd) : MatchAt(pat, 1, cmd, i, <<>>).ok} IN
    IF starts = {} THEN NoMatch
    ELSE MatchAt(pat, 1, cmd, CHOOSE i \in starts : \A i2 \in starts : i <= i2,
                 <<>>)

\* kw in command.lower(), for a keyword written as atoms; a final "/" of the
\* keyword is the first character of a rooted atom.
KwAt(kw, cmd, i) ==
    /\ i + Len(kw) - 1 <= Len(cmd)
    /\ \A k \in 1..Len(kw) :
         IF kw[k] = "/" THEN cmd[i + k - 1] \in RootedAtoms
         ELSE Lower(cmd[i + k - 1]) = kw[k]
Contains(kw, cmd) == \E i \in 1..Len(cmd) : KwAt(kw, cmd, i)

\* "main" in command.lower()
ContainsMain(cmd) == \E i \in 1..Len(cmd) : Lower(cmd[i]) \in MainAtoms

-----------------------------------------------------------------------------
(* pre_tool_use.py: the static tables *)

FILE_EDIT_TOOLS ==
    {"create_file", "editFiles", "replace_string_in_file",
     "multi_replace_string_in_file", "edit_notebook_file"}

\* git\s+push\s+.*\bmain\b
RePushMain == <<ILit("git"), Ws, ILit("push"), Ws, DotStar, IWord("main")>>
\* git\s+commit\b.*(?:--allow-empty)?   (the optional group matches empty)
ReCommitB == <<ILit("git"), Ws, IWord("commit"), DotStar>>
\* rm\s+-rf\s+/
ReRmRf == <<ILit("rm"), Ws, ILit("-rf"), Ws, Rooted>>
\* Remove-Item\s+-Recurse\s+-Force\s+[/\\]
ReRemoveItem ==
    <<ILit("Remove-Item"), Ws, ILit("-Recurse"), Ws, ILit("-Force"), Ws, Rooted>>
\* DROP\s+TABLE
ReDropTable == <<ILit("DROP"), Ws, ILit("TABLE")>>
\* DROP\s+DATABASE
ReDropDatabase == <<ILit("DROP"), Ws, ILit("DATABASE")>>

DANGEROUS_TERMINAL_PATTERNS ==
    <<RePushMain, ReCommitB, ReRmRf, ReRemoveItem, ReDropTable, ReDropDatabase>>

\* git\s+commit  (the commit rule of check_terminal_safety)
ReGitCommit == <<ILit("git"), Ws, ILit("commit")>>

\* git\s+(?:branch|checkout\s+-b|switch\s+-c)\s+(\S+)
ReBranchCreate ==
    <<ILit("git"), Ws,
      Alt(<< <<ILit("branch")>>,
             <<ILit("checkout"), Ws, ILit("-b")>>,
             <<ILit("switch"), Ws, ILit("-c")>> >>),
      Ws, Cap("nows")>>

\* The keywords of the destructive branch of check_terminal_safety.
DestructiveKeywords ==
    << <<"rm", " ", "-rf", " ", "/">>, <<"drop", " ", "table">>,
       <<"drop", " ", "database">> >>

_TERMINAL_CWD_PATTERNS ==
    << <<Lit("cd"), Ws, Quote, Cap("noquote"), Quote>>,
       <<Lit("cd"), Ws, Cap("nosep")>>,
       <<ILit("Push-Location"), Ws, Quote, Cap("noquote"), Quote>>,
       <<ILit("Push-Location"), Ws, Cap("nosep")>>,
       <<Lit("git"), Ws, Lit("-C"), Ws, Quote, Cap("noquote"), Quote>>,
       <<Lit("git"), Ws, Lit("-C"), Ws, Cap("nows")>> >>

-----------------------------------------------------------------------------
(* Decisions.  A check returns NoOpinion (Python None) or a decision with  *)
(* the text of its reason given by msg and the values interpolated in it.  *)

NoOpinion ==
    [decision |-> "none", msg |-> "", branch |-> "", echo |-> <<>>,
     cut |-> 0, name |-> <<>>, prefix |-> "", format |-> ""]
\* write_hook_output({})
EmptyOutput == [NoOpinion EXCEPT !.decision = "allow"]

\* command[:n]: the whole atoms that fit, and how many characters of the next.
RECURSIVE Truncate(_, _)
Truncate(cmd, n) ==
    IF cmd = <<>> \/ n = 0 THEN [atoms |-> <<>>, cut |-> 0]
    ELSE IF Len(Head(cmd)) <= n
         THEN LET r == Truncate(Tail(cmd), n - Len(Head(cmd))) IN
              [atoms |-> <<Head(cmd)>> \o r.atoms, cut |-> r.cut]
         ELSE [atoms |-> <<>>, cut |-> n]

EchoLimit == 80

-----------------------------------------------------------------------------
(* hook_utils.py: is_main_branch *)

\* A mutation of IsMainBranch: master is not recognised.
IsMainBranchMainOnly(branch) == branch = "main"

\* A mutation of IsMainBranch: an undetermined branch counts as protected.
IsMainBranchOrUnknown(branch) == branch \in {"main", "master", None, ""}

IsMainBranch(branch) == branch \in {"main", "master"}

-----------------------------------------------------------------------------
(* pre_tool_use.py: the three checks *)

CheckMainBranchProtection(tool_name, branch) ==
    IF ~IsMainBranch(branch) THEN NoOpinion
    ELSE IF tool_name \in FILE_EDIT_TOOLS
         THEN [NoOpinion EXCEPT !.decision = "deny", !.msg = "edits-on-branch",
                                !.branch = branch]
         ELSE NoOpinion

\* The body of `for pattern in DANGEROUS_TERMINAL_PATTERNS`, from pattern k on.
RECURSIVE DangerousLoop(_, _, _)
DangerousLoop(command, branch, k) ==
    IF k > Len(DANGEROUS_TERMINAL_PATTERNS) THEN NoOpinion
    ELSE IF Search(DANGEROUS_TERMINAL_PATTERNS[k], command).ok
         THEN IF Contains(<<"git", " ", "push">>, command) /\ ContainsMain(command)
              THEN IF IsMainBranch(branch)
                   THEN [NoOpinion EXCEPT !.decision = "deny",
                                          !.msg = "push-to-main"]
                   ELSE DangerousLoop(command, branch, k + 1)
              ELSE IF \E w \in 1..Len(DestructiveKeywords) :
                        Contains(DestructiveKeywords[w], command)
                   THEN LET e == Truncate(command, EchoLimit) IN
                        [NoOpinion EXCEPT !.decision = "deny",
                                          !.msg = "destructive",
                                          !.echo = e.atoms, !.cut = e.cut]
                   ELSE DangerousLoop(command, branch, k + 1)
         ELSE DangerousLoop(command, branch, k + 1)

\* A mutation of CheckTerminalSafety: the commit rule does not look at the branch.
CheckTerminalSafetyAnyBranch(tool_name, command, branch) ==
    IF tool_name # "run_in_terminal" THEN NoOpinion
    ELSE IF command = <<>> THEN NoOpinion
    ELSE IF Search(ReGitCommit, command).ok
         THEN [NoOpinion EXCEPT !.decision = "deny", !.msg = "commit-on-main"]
         ELSE DangerousLoop(command, branch, 1)

CheckTerminalSafety(tool_name, command, branch) ==
    IF tool_name # "run_in_terminal" THEN NoOpinion
    ELSE IF command = <<>> THEN NoOpinion
    ELSE IF IsMainBranch(branch) /\ Search(ReGitCommit, command).ok
         THEN [NoOpinion EXCEPT !.decision = "deny", !.msg = "commit-on-main"]
         ELSE DangerousLoop(command, branch, 1)

\* settings: [json |-> "none" | "object", keys |-> the top-level keys,
\*            user, format |-> the values of branch.user / branch.format or None]
DefaultFormat == "<user>/<type>-<description>"

\* branch_name.startswith(f"{user_prefix}/"), names being atom sequences.
PrefixedNames(user) ==
    CASE user = "alice" -> {"alice/feat"}
      [] OTHER -> {}
StartsWithPrefix(name, user) == name # <<>> /\ name[1] \in PrefixedNames(user)

\* A mutation of CheckBranchNaming: a mis-prefixed name is denied, and the
\* prefix is required even when the settings declare none.
CheckBranchNamingStrict(tool_name, command, s) ==
    IF tool_name # "run_in_terminal" THEN NoOpinion
    ELSE LET m == Search(ReBranchCreate, command) IN
      IF ~m.ok THEN NoOpinion
      ELSE IF ~StartsWithPrefix(m.cap, s.user)
           THEN [NoOpinion EXCEPT !.decision = "deny", !.msg = "branch-prefix",
                                  !.name = m.cap]
           ELSE NoOpinion

CheckBranchNaming(tool_name, command, s) ==
    IF tool_name # "run_in_terminal" THEN NoOpinion
    ELSE LET m == Search(ReBranchCreate, command) IN
      IF ~m.ok THEN NoOpinion
      ELSE IF s.json = "none" \/ s.keys = {} THEN NoOpinion
      ELSE LET user_prefix == IF "branch" \in s.keys /\ s.user # None
                              THEN s.user ELSE ""
               format == IF "branch" \in s.keys /\ s.format # None
                         THEN s.format ELSE DefaultFormat
           IN IF user_prefix # "" /\ ~StartsWithPrefix(m.cap, user_prefix)
              THEN [NoOpinion EXCEPT !.decision = "ask", !.msg = "branch-prefix",
                                     !.name = m.cap, !.prefix = user_prefix,
                                     !.format = format]
              ELSE NoOpinion

-----------------------------------------------------------------------------
(* pre_tool_use.py: the effective location *)

\* a or b
OrT(a, b) == IF TruthyT(a) THEN a ELSE b

\* A mutation of ExtractFilePathFromTool: only the top-level path is read.
ExtractFilePathTopLevelOnly(tool_name, tool_input) ==
    LET file_path == OrT(tool_input.filePath, tool_input.file_path) IN
    IF TruthyT(file_path) THEN file_path ELSE NoneT

\* tool_input: [filePath, file_path |-> optional text,
\*              replacements |-> sequence of [dict |-> BOOLEAN, filePath |-> ..],
\*              command |-> text]
ExtractFilePathFromTool(tool_name, tool_input) ==
    LET file_path == OrT(tool_input.filePath, tool_input.file_path) IN
    IF TruthyT(file_path) THEN file_path
    ELSE IF /\ tool_name = "multi_replace_string_in_file"
            /\ tool_input.replacements # <<>>
            /\ tool_input.replacements[1].dict
         THEN tool_input.replacements[1].filePath
         ELSE NoneT

\* str.strip() of a captured group
RECURSIVE StripLeft(_)
StripLeft(t) ==
    IF t # <<>> /\ Head(t) \in WsAtoms THEN StripLeft(Tail(t)) ELSE t
RECURSIVE StripRight(_)
StripRight(t) ==
    IF t # <<>> /\ t[Len(t)] \in WsAtoms
    THEN StripRight(SubSeq(t, 1, Len(t) - 1)) ELSE t
Strip(t) == StripRight(StripLeft(t))

\* The loop of extract_terminal_effective_cwd, from pattern k on.
RECURSIVE CwdLoop(_, _)
CwdLoop(command, k) ==
    IF k > Len(_TERMINAL_CWD_PATTERNS) THEN NoneT
    ELSE LET m == Search(_TERMINAL_CWD_PATTERNS[k], command) IN
         IF m.ok THEN Strip(m.cap) ELSE CwdLoop(command, k + 1)

\* A mutation of ExtractTerminalEffectiveCwd: the idiom that comes first in
\* the command wins, whatever its pattern.
ExtractTerminalEffectiveCwdLeftmost(command) ==
    LET hits == {h \in (1..Len(command)) \X (1..Len(_TERMINAL_CWD_PATTERNS)) :
                   MatchAt(_TERMINAL_CWD_PATTERNS[h[2]], 1, command, h[1], <<>>).ok}
    IN IF hits = {} THEN NoneT
       ELSE LET h == CHOOSE h \in hits :
                       \A g \in hits : h[1] < g[1] \/ (h[1] = g[1] /\ h[2] <= g[2])
            IN Strip(MatchAt(_TERMINAL_CWD_PATTERNS[h[2]], 1, command, h[1],
                             <<>>).cap)

ExtractTerminalEffectiveCwd(command) == CwdLoop(command, 1)

-----------------------------------------------------------------------------
(* hook_utils.py: paths.  A resolved path is the sequence of its           *)
(* components; PathParts is Path(text).resolve() for the texts that name   *)
(* an absolute path, any other text resolves outside the repository.       *)

RepoDir == <<"repo">>

SplitPath(s) ==
    CASE s = "/" -> <<>>
      [] s = "/repo" -> RepoDir
      [] s = "/repo/src/a.py" -> <<"repo", "src", "a.py">>
      [] s = "/repo/.worktrees" -> <<"repo", ".worktrees">>
      [] s = "/repo/.worktrees/foo" -> <<"repo", ".worktrees", "foo">>
      [] s = "/repo/.worktrees/foo/a.py" ->
           <<"repo", ".worktrees", "foo", "a.py">>
      [] s = "/repo/.worktrees/gone" -> <<"repo", ".worktrees", "gone">>
      [] s = "/repo/.worktrees/gone/a.py" ->
           <<"repo", ".worktrees", "gone", "a.py">>
      [] s = "/repo/.worktrees/foo/.." ->
           <<"repo", ".worktrees", "foo", "..">>
      [] s = "/repo/.worktrees/foo/../../src/a.py" ->
           <<"repo", ".worktrees", "foo", "..", "..", "src", "a.py">>
      [] s = "/repo/src/../.worktrees/./foo/a.py" ->
           <<"repo", "src", "..", ".worktrees", ".", "foo", "a.py">>
      [] s = "/repo/.worktrees/README.md" ->
           <<"repo", ".worktrees", "README.md">>
      [] s = "/repo/.worktrees2/foo/a.py" ->
           <<"repo", ".worktrees2", "foo", "a.py">>
      [] s = "/repo/.github/settings.json" ->
           <<"repo", ".github", "settings.json">>
      [] s = "/repo/.github/rules/gate-profiles.json" ->
           <<"repo", ".github", "rules", "gate-profiles.json">>
      [] s = "/repo/.copilot/boards/feat-a/board.json" ->
           <<"repo", ".copilot", "boards", "feat-a", "board.json">>
      [] s = "/elsewhere" -> <<"elsewhere">>
      [] s = "/worktrees/foo" -> <<"worktrees", "foo">>
      [] s = "/tmp/x" -> <<"tmp", "x">>
      [] OTHER -> <<"cwd", "?">>

\* Path.resolve() on the components: '.' is dropped, '..' steps up and stays
\* at the root.
RECURSIVE Normalize(_, _)
Normalize(raw, acc) ==
    IF raw = <<>> THEN acc
    ELSE LET rest == SubSeq(raw, 2, Len(raw)) IN
         CASE raw[1] = "." -> Normalize(rest, acc)
           [] raw[1] = ".." ->
                Normalize(rest, IF acc = <<>> THEN <<>>
                                ELSE SubSeq(acc, 1, Len(acc) - 1))
           [] OTHER -> Normalize(rest, Append(acc, raw[1]))

PathParts(t) ==
    IF Len(t) # 1 THEN <<"cwd", "?">>
    ELSE Normalize(SplitPath(t[1]), <<>>)

IsPrefix(p, q) == Len(p) <= Len(q) /\ SubSeq(q, 1, Len(p)) = p

\* Directories that hold a .github/ marker directory.
MarkerDirs == {RepoDir}
MaxLevels == 15

\* find_repo_root: the upward walk; without a marker the fallback query has
\* no repository to report and the start directory is returned.
RECURSIVE WalkUp(_, _, _)
WalkUp(start, current, n) ==
    IF n = 0 THEN start
    ELSE IF current \in MarkerDirs THEN current
    ELSE IF current = <<>> THEN start
    ELSE WalkUp(start, SubSeq(current, 1, Len(current) - 1), n - 1)

FindRepoRoot(cwd) == WalkUp(PathParts(cwd), PathParts(cwd), MaxLevels)

\* A mutation of ResolveWorktreeRoot: the directory is not looked for.
ResolveWorktreeRootNoIsDir(file_path, repo_root, dirs) ==
    IF ~TruthyT(file_path) THEN NoneT
    ELSE LET path == PathParts(file_path)
             worktrees_dir == repo_root \o <<".worktrees">>
         IN IF ~IsPrefix(worktrees_dir, path) THEN NoneT
            ELSE IF Len(path) = Len(worktrees_dir) THEN NoneT
            ELSE worktrees_dir \o <<path[Len(worktrees_dir) + 1]>>

\* resolve_worktree_root; dirs is the set of worktree names whose directory
\* exists under repo_root/.worktrees.
ResolveWorktreeRoot(file_path, repo_root, dirs) ==
    IF ~TruthyT(file_path) THEN NoneT
    ELSE LET path == PathParts(file_path)
             worktrees_dir == repo_root \o <<".worktrees">>
         IN IF ~IsPrefix(worktrees_dir, path) THEN NoneT       \* ValueError
            ELSE IF Len(path) = Len(worktrees_dir) THEN NoneT  \* IndexError
            ELSE LET worktree_name == path[Len(worktrees_dir) + 1] IN
                 IF repo_root = RepoDir /\ worktree_name \in dirs
                 THEN worktrees_dir \o <<worktree_name>>
                 ELSE NoneT

\* The outcome of `git rev-parse --abbrev-ref HEAD` in a directory:
\* [kind |-> "ok" | "nonzero" | "timeout" | "missing", stdout |-> text]
Raise == "<raise>"

\* The string a stripped stdout denotes.
Str(t) == IF t = <<>> THEN "" ELSE t[1]

GetCurrentBranch(o) ==
    CASE o.kind = "ok" -> Str(Strip(o.stdout))
      [] o.kind = "nonzero" -> None
      [] o.kind = "timeout" -> None       \* except subprocess.TimeoutExpired
      [] o.kind = "missing" -> None       \* except FileNotFoundError

\* A mutation of GetBranchForPath: the result of the query in the worktree is
\* returned even when it is nothing.
GetBranchForPathNoFallback(file_path, repo_root, dirs, vcs) ==
    LET wt_root == ResolveWorktreeRoot(file_path, repo_root, dirs) IN
    IF wt_root # NoneT THEN GetCurrentBranch(vcs[wt_root])
    ELSE GetCurrentBranch(vcs[repo_root])

\* vcs maps a directory to the outcome of the query there.
GetBranchForPath(file_path, repo_root, dirs, vcs) ==
    LET wt_root == ResolveWorktreeRoot(file_path, repo_root, dirs)
        branch == GetCurrentBranch(vcs[wt_root])
    IN IF wt_root # NoneT /\ Truthy(branch) THEN branch
       ELSE GetCurrentBranch(vcs[repo_root])

\* load_settings: the file is missing, malformed, or a JSON object.
LoadSettings(file) ==
    IF file.json \in {"missing", "malformed"}
    THEN [json |-> "none", keys |-> {}, user |-> None, format |-> None]
    ELSE file

-----------------------------------------------------------------------------
(* pre_tool_use.py: main *)

\* A mutation of Decide: no early return, a later opinion replaces an earlier.
DecideLastWins(r1, r2, r3) ==
    [checks |-> << <<"protection", r1>>, <<"terminal", r2>>, <<"naming", r3>> >>,
     stdout |-> <<IF r3.decision # "none" THEN r3
                  ELSE IF r2.decision # "none" THEN r2
                  ELSE IF r1.decision # "none" THEN r1
                  ELSE EmptyOutput>>]

\* Checks 1 to 3 of main: each result that is an opinion is written and main
\* returns; r2 and r3 are evaluated only when reached.  checks lists the
\* checks evaluated, in order, with their results.
Decide(r1, r2, r3) ==
    IF r1.decision # "none"
    THEN [checks |-> << <<"protection", r1>> >>, stdout |-> <<r1>>]
    ELSE IF r2.decision # "none"
    THEN [checks |-> << <<"protection", r1>>, <<"terminal", r2>> >>,
          stdout |-> <<r2>>]
    ELSE IF r3.decision # "none"
    THEN [checks |-> << <<"protection", r1>>, <<"terminal", r2>>,
                        <<"naming", r3>> >>,
          stdout |-> <<r3>>]
    ELSE [checks |-> << <<"protection", r1>>, <<"terminal", r2>>,
                        <<"naming", r3>> >>,
          stdout |-> <<EmptyOutput>>]

\* The location main passes to get_branch_for_path.
EffectiveLocation(ev) ==
    LET fp0 == ExtractFilePathFromTool(ev.tool, ev.input) IN
    IF ~TruthyT(fp0) /\ ev.tool = "run_in_terminal"
    THEN OrT(ExtractTerminalEffectiveCwd(ev.input.command), ev.cwd)
    ELSE fp0

\* What one invocation did: the effective location, the branch, the checks
\* evaluated and the objects written to stdout; an exception that escapes
\* main ends the process with nothing written.
Main(ev, ds, v, file) ==
    LET repo_root == FindRepoRoot(ev.cwd)
        settings == LoadSettings(file)
        file_path == EffectiveLocation(ev)
        branch == GetBranchForPath(file_path, repo_root, ds, v)
        d == Decide(CheckMainBranchProtection(ev.tool, branch),
                    CheckTerminalSafety(ev.tool, ev.input.command, branch),
                    CheckBranchNaming(ev.tool, ev.input.command, settings))
    IN IF branch = Raise
       THEN [file_path |-> file_path, branch |-> branch, checks |-> <<>>,
             stdout |-> <<>>, exit |-> "error"]
       ELSE [file_path |-> file_path, branch |-> branch, checks |-> d.checks,
             stdout |-> d.stdout, exit |-> "ok"]

-----------------------------------------------------------------------------
(* State *)

VARIABLES
    dirs,          \* names of the worktree directories under /repo/.worktrees
    vcs,           \* directory -> outcome of the branch query there
    settingsFile,  \* /repo/.github/settings.json
    pc,            \* "idle": no handler runs; "done": a handler has returned
    event,         \* the hook input of the invocation
    run,           \* what the invocation computed and wrote
    arg,           \* argument of a function called in isolation
    ret,           \* its return value
    tree,          \* directory -> state of the working tree there
    boardDirs,     \* "root" or worktree name -> listing of .copilot/boards
    blocked,       \* the previous stop event was answered with a block
    gateFile,      \* /repo/.github/rules/gate-profiles.json
    _entries,      \* CalculationHistory._entries of the one history
    _history,      \* Calculator._history: None or the history
    calls          \* the calls made on the history and the calculator so far

vars == <<dirs, vcs, settingsFile, pc, event, run, arg, ret, tree, boardDirs,
          blocked, gateFile,
          _entries, _history, calls>>

WtNames == {"foo"}
Containers == {"root"} \cup WtNames
NoOutput == [kind |-> "ok", stdout |-> <<>>]
CleanTree == [porcelain |-> NoOutput, short |-> NoOutput]
\* A directory listing (see the board scan below): not a directory, or the
\* entries of the directory.
NoDir == [isdir |-> FALSE, entries |-> <<>>]
\* A JSON file that does not exist.
NoFile == [json |-> "missing"]
Dir(entries) == [isdir |-> TRUE, entries |-> entries]
WtDir(n) == RepoDir \o <<".worktrees", n>>
AllDirs == {RepoDir} \cup {WtDir(n) : n \in WtNames}

BranchNames == {"main", "master", "alice/feat"}
Ok(b) == [kind |-> "ok", stdout |-> <<b, "\n">>]
OkEmpty == [kind |-> "ok", stdout |-> <<>>]
Failed(k) == [kind |-> k, stdout |-> <<>>]
FailureKinds == {"nonzero", "timeout", "missing"}
Outcomes ==
    {Ok(b) : b \in BranchNames} \cup {OkEmpty} \cup {Failed(k) : k \in FailureKinds}

SettingsObject(keys, user, format) ==
    [json |-> "object", keys |-> keys, user |-> user, format |-> format]
SettingsFiles ==
    { [json |-> "missing", keys |-> {}, user |-> None, format |-> None],
      [json |-> "malformed", keys |-> {}, user |-> None, format |-> None],
      SettingsObject({}, None, None),
      SettingsObject({"github"}, None, None),
      SettingsObject({"github", "branch"}, "", None),
      SettingsObject({"github", "branch"}, "alice", None),
      SettingsObject({"github", "branch"}, "alice", "<user>/<issue>-<slug>") }

Tools == FILE_EDIT_TOOLS \cup {"run_in_terminal", "read_file"}

NoEvent ==
    [tool |-> "", cwd |-> NoneT,
     input |-> [filePath |-> NoneT, file_path |-> NoneT,
                replacements |-> <<>>, command |-> <<>>]]
NoRun ==
    [file_path |-> NoneT, branch |-> None, checks |-> <<>>, stdout |-> <<>>,
     exit |-> ""]

-----------------------------------------------------------------------------
(* Inputs *)

\* a ; b  and  a && b
Semi(a, b) == a \o <<";", " ">> \o b
AndAnd(a, b) == a \o <<" ", "&&", " ">> \o b

SrcFile == <<"/repo/src/a.py">>
WtFile == <<"/repo/.worktrees/foo/a.py">>
Entry(p) == [dict |-> TRUE, filePath |-> p]
NotADict == [dict |-> FALSE, filePath |-> NoneT]

Input(fp, fp2, reps, cmd) ==
    [filePath |-> fp, file_path |-> fp2, replacements |-> reps, command |-> cmd]

\* The argument shapes of the file tools.
FileInputs ==
    { Input(NoneT, NoneT, <<>>, <<>>),
      Input(<<>>, NoneT, <<>>, <<>>),
      Input(SrcFile, NoneT, <<>>, <<>>),
      Input(WtFile, NoneT, <<>>, <<>>),
      Input(<<"/repo/.worktrees/gone/a.py">>, NoneT, <<>>, <<>>),
      Input(NoneT, WtFile, <<>>, <<>>),
      Input(<<>>, SrcFile, <<>>, <<>>),
      Input(SrcFile, WtFile, <<>>, <<>>),
      Input(NoneT, NoneT, <<Entry(WtFile)>>, <<>>),
      Input(NoneT, NoneT, <<Entry(WtFile), Entry(SrcFile)>>, <<>>),
      Input(NoneT, NoneT, <<Entry(SrcFile), Entry(WtFile)>>, <<>>),
      Input(NoneT, NoneT, <<NotADict, Entry(WtFile)>>, <<>>),
      Input(NoneT, NoneT, <<Entry(NoneT)>>, <<>>),
      Input(SrcFile, NoneT, <<Entry(WtFile)>>, <<>>) }

Cwds == {<<"/repo">>, <<"/repo/.worktrees/foo">>}

SegCommit == <<"git", " ", "commit", " ", "-m", " ", "x">>
SegPushMain == <<"git", " ", "push", " ", "origin", " ", "main">>
SegNewBranch == <<"git", " ", "checkout", " ", "-b", " ", "feat">>
SegRmRf == <<"rm", " ", "-rf", " ", "/">>
SegCdWt == <<"cd", " ", "/repo/.worktrees/foo">>
SegCdWtQuoted == <<"cd", " ", "\"", "/repo/.worktrees/foo", "\"">>
SegCdRepo == <<"cd", " ", "/repo">>
SegCdGone == <<"cd", " ", "/repo/.worktrees/gone">>
SegCdContainer == <<"cd", " ", "/repo/.worktrees">>
SegPushLocWt == <<"Push-Location", " ", "/repo/.worktrees/foo">>
SegGitCWt == <<"git", " ", "-C", " ", "/repo/.worktrees/foo">>

\* Commands of the events that exercise the context resolver.
CtxPrefixes ==
    {SegCdWt, SegCdWtQuoted, SegCdRepo, SegCdGone, SegCdContainer, SegPushLocWt}
CtxActs == {SegCommit, SegPushMain, SegNewBranch, SegRmRf}
CtxCommands ==
    CtxActs
      \cup {Semi(p, a) : p \in CtxPrefixes, a \in CtxActs}
      \cup {AndAnd(SegCdWt, a) : a \in CtxActs}
      \cup {SegGitCWt \o <<" ">> \o Tail(Tail(SegCommit)),
            AndAnd(SegCommit, SegCdWt)}

Events ==
    [tool : Tools, cwd : Cwds, input : FileInputs]
      \cup [tool : {"run_in_terminal"}, cwd : Cwds,
            input : {Input(NoneT, NoneT, <<>>, c) : c \in CtxCommands}]
      \cup [tool : {"run_in_terminal", "create_file"}, cwd : Cwds,
            input : {Input(SrcFile, NoneT, <<>>, Semi(SegCdWt, SegCommit))}]

-----------------------------------------------------------------------------
(* Actions *)

\* A hook process handles one PreToolUse event, drawn from E.
PreToolUse(E) ==
    /\ pc = "idle"
    /\ \E e \in E :
         /\ event' = e
         /\ run' = Main(e, dirs, vcs, settingsFile)
    /\ pc' = "done"
    /\ UNCHANGED <<dirs, vcs, settingsFile, arg, ret>>
    /\ UNCHANGED <<tree, boardDirs, blocked, gateFile,
                   _entries, _history, calls>>

\* The process ends; nothing is retained between invocations.
Exit ==
    /\ pc = "done"
    /\ pc' = "idle"
    /\ event' = NoEvent
    /\ run' = NoRun
    /\ UNCHANGED <<dirs, vcs, settingsFile, arg, ret>>
    /\ UNCHANGED <<tree, boardDirs, blocked, gateFile,
                   _entries, _history, calls>>

\* The environment, between invocations.
IsDir(d) == d = RepoDir \/ \E n \in dirs : d = WtDir(n)

GitCheckout(d, b) ==
    /\ pc = "idle"
    /\ IsDir(d)
    /\ vcs' = [vcs EXCEPT ![d] = Ok(b)]
    /\ UNCHANGED <<dirs, settingsFile, pc, event, run, arg, ret>>
    /\ UNCHANGED <<tree, boardDirs, blocked, gateFile,
                   _entries, _history, calls>>

\* The next branch query in d fails, or prints nothing.
GitFault(d, o) ==
    /\ pc = "idle"
    /\ IsDir(d)
    /\ vcs' = [vcs EXCEPT ![d] = o]
    /\ UNCHANGED <<dirs, settingsFile, pc, event, run, arg, ret>>
    /\ UNCHANGED <<tree, boardDirs, blocked, gateFile,
                   _entries, _history, calls>>

WorktreeAdd(n, b) ==
    /\ pc = "idle"
    /\ n \notin dirs
    /\ dirs' = dirs \cup {n}
    /\ vcs' = [vcs EXCEPT ![WtDir(n)] = Ok(b)]
    /\ UNCHANGED <<settingsFile, pc, event, run, arg, ret>>
    /\ UNCHANGED <<tree, boardDirs, blocked, gateFile,
                   _entries, _history, calls>>

WorktreeRemove(n) ==
    /\ pc = "idle"
    /\ n \in dirs
    /\ dirs' = dirs \ {n}
    /\ vcs' = [vcs EXCEPT ![WtDir(n)] = Failed("missing")]
    /\ UNCHANGED <<settingsFile, pc, event, run, arg, ret>>
    /\ UNCHANGED <<tree, boardDirs, blocked, gateFile,
                   _entries, _history, calls>>

WriteSettings(f) ==
    /\ pc = "idle"
    /\ f # settingsFile
    /\ settingsFile' = f
    /\ UNCHANGED <<dirs, vcs, pc, event, run, arg, ret>>
    /\ UNCHANGED <<tree, boardDirs, blocked, gateFile,
                   _entries, _history, calls>>

Init ==
    /\ dirs = {}
    /\ vcs = [d \in AllDirs |-> IF d = RepoDir THEN Ok("main")
                                ELSE Failed("missing")]
    /\ settingsFile = [json |-> "missing", keys |-> {}, user |-> None,
                       format |-> None]
    /\ pc = "idle"
    /\ event = NoEvent
    /\ run = NoRun
    /\ arg = <<>>
    /\ ret = NoneT
    /\ tree = [d \in AllDirs |-> CleanTree]
    /\ boardDirs = [c \in Containers |-> NoDir]
    /\ blocked = FALSE
    /\ gateFile = NoFile
    /\ _entries = <<>>
    /\ _history = None
    /\ calls = <<>>

Next ==
    \/ PreToolUse(Events)
    \/ Exit
    \/ \E d \in AllDirs, b \in BranchNames : GitCheckout(d, b)
    \/ \E d \in AllDirs, o \in Outcomes \ {Ok(b) : b \in BranchNames} :
         GitFault(d, o)
    \/ \E n \in WtNames, b \in BranchNames : WorktreeAdd(n, b)
    \/ \E n \in WtNames : WorktreeRemove(n)
    \/ \E f \in SettingsFiles : WriteSettings(f)

Spec == Init /\ [][Next]_vars

-----------------------------------------------------------------------------
(* The policy gate in a repository without worktrees, on commands made of  *)
(* up to MaxSegs sub-commands.                                             *)

MaxSegs == 2

Pad == "xxxxxxxxxxxxxxxxxxxxxxxxxxxxxxxxxxxxxxxxxxxxxxxxxxxxxxxxxxxxxxxxxxxxxxxxxxxx"

SegPushMaster == <<"git", " ", "push", " ", "origin", " ", "master">>
SegPushMainWide == <<"git", "  ", "push", " ", "origin", " ", "main">>
SegRmRfWide == <<"rm", "  ", "-rf", " ", "/tmp/x">>
SegRemoveItem == <<"Remove-Item", " ", "-Recurse", " ", "-Force", " ", "/">>
SegDropTable == <<"DROP", " ", "TABLE", " ", "x">>
SegDropDatabase == <<"drop", " ", "database", " ", "x">>
SegNewGood == <<"git", " ", "switch", " ", "-c", " ", "alice/feat">>
SegBranchDelete == <<"git", " ", "branch", " ", "-d", " ", "feat">>
SegEchoMainline == <<"echo", " ", "mainline">>
SegEchoPad == <<"echo", " ", Pad>>

PolicySegs ==
    {SegCommit, SegPushMain, SegPushMaster, SegPushMainWide, SegRmRf,
     SegRmRfWide, SegRemoveItem, SegDropTable, SegDropDatabase, SegNewBranch,
     SegNewGood, SegBranchDelete, SegEchoMainline, SegEchoPad}

RECURSIVE CommandsOf(_, _)
CommandsOf(S, n) ==
    IF n = 0 THEN {}
    ELSE S \cup {AndAnd(c, s) : c \in CommandsOf(S, n - 1), s \in S}

PolicyCommands == CommandsOf(PolicySegs, MaxSegs)

PolicyEvents ==
    [tool : {"run_in_terminal"}, cwd : {<<"/repo">>},
     input : {Input(NoneT, NoneT, <<>>, c) : c \in PolicyCommands \cup {<<>>}}]
      \cup [tool : Tools \ {"run_in_terminal"}, cwd : {<<"/repo">>},
            input : {Input(SrcFile, NoneT, <<>>, <<>>),
                     Input(SrcFile, NoneT, <<>>, SegRmRf),
                     Input(NoneT, NoneT, <<>>, AndAnd(SegCommit, SegNewBranch))}]

\* One settings file per result load_settings hands to the naming check, and
\* one query outcome per absent branch ('' and None).
PolicySettings ==
    {f \in SettingsFiles : f.json # "malformed" /\ f.keys # {"github"}}
PolicyFaults == {OkEmpty, Failed("timeout")}

NextPolicy ==
    \/ PreToolUse(PolicyEvents)
    \/ Exit
    \/ \E b \in BranchNames : GitCheckout(RepoDir, b)
    \/ \E o \in PolicyFaults : GitFault(RepoDir, o)
    \/ \E f \in PolicySettings : WriteSettings(f)

SpecPolicy == Init /\ [][NextPolicy]_vars

-----------------------------------------------------------------------------
(* extract_terminal_effective_cwd called on commands made of up to         *)
(* MaxIdioms sub-commands, each holding at most one directory-change idiom *)

MaxIdioms == 2

\* [text, rank |-> index of the first pattern that matches it (7: none),
\*  target |-> the directory it names]
IdiomSegs ==
    { [text |-> SegCdWtQuoted, rank |-> 1, target |-> <<"/repo/.worktrees/foo">>],
      [text |-> <<"cd", "  ", "'", " ", "/tmp/x", " ", "'">>, rank |-> 1,
       target |-> <<"/tmp/x">>],
      [text |-> <<"cd", " ", "/worktrees/foo">>, rank |-> 2,
       target |-> <<"/worktrees/foo">>],
      [text |-> <<"Push-Location", " ", "\"", "/elsewhere", "\"">>, rank |-> 3,
       target |-> <<"/elsewhere">>],
      [text |-> <<"push-location", " ", "/repo/src/a.py">>, rank |-> 4,
       target |-> <<"/repo/src/a.py">>],
      [text |-> <<"git", " ", "-C", " ", "'", "/repo/.worktrees/gone", "'", " ",
                  "status">>, rank |-> 5, target |-> <<"/repo/.worktrees/gone">>],
      [text |-> <<"git", " ", "-C", " ", "/repo/.worktrees", " ", "status">>,
       rank |-> 6, target |-> <<"/repo/.worktrees">>],
      [text |-> SegCommit, rank |-> 7, target |-> NoneT] }

RECURSIVE SegLists(_)
SegLists(n) ==
    IF n = 0 THEN {<<>>}
    ELSE SegLists(n - 1)
           \cup {Append(l, s) : l \in {l \in SegLists(n - 1) : Len(l) = n - 1},
                                s \in IdiomSegs}

CwdArgs == [segs : SegLists(MaxIdioms) \ {<<>>}, sep : {";", "&&"}]

RECURSIVE JoinSegs(_, _)
JoinSegs(l, sep) ==
    IF Len(l) = 1 THEN l[1].text
    ELSE IF sep = ";" THEN Semi(JoinSegs(SubSeq(l, 1, Len(l) - 1), sep), l[Len(l)].text)
    ELSE AndAnd(JoinSegs(SubSeq(l, 1, Len(l) - 1), sep), l[Len(l)].text)

CommandOf(a) == JoinSegs(a.segs, a.sep)

InitCwd ==
    /\ dirs = {}
    /\ vcs = [d \in AllDirs |-> Failed("missing")]
    /\ settingsFile = [json |-> "missing", keys |-> {}, user |-> None,
                       format |-> None]
    /\ pc = "call"
    /\ event = NoEvent
    /\ run = NoRun
    /\ arg \in CwdArgs
    /\ ret = NoneT
    /\ tree = [d \in AllDirs |-> CleanTree]
    /\ boardDirs = [c \in Containers |-> NoDir]
    /\ blocked = FALSE
    /\ gateFile = NoFile
    /\ _entries = <<>>
    /\ _history = None
    /\ calls = <<>>

CallExtractTerminalEffectiveCwd ==
    /\ pc = "call"
    /\ ret' = ExtractTerminalEffectiveCwd(CommandOf(arg))
    /\ pc' = "returned"
    /\ UNCHANGED <<dirs, vcs, settingsFile, event, run, arg>>
    /\ UNCHANGED <<tree, boardDirs, blocked, gateFile,
                   _entries, _history, calls>>

SpecCwd == InitCwd /\ [][CallExtractTerminalEffectiveCwd]_vars

-----------------------------------------------------------------------------
(* hook_utils.py: the board scan.  A directory listing is                  *)
(* [isdir, entries]: entries in the order iterdir yields them, each        *)
(* [name, kind, data] with kind one of                                     *)
(*   "file"       the entry is not a directory                             *)
(*   "empty"      a directory without board.json                           *)
(*   "unreadable" board.json cannot be read (OSError)                      *)
(*   "notutf8"    board.json is not UTF-8 text (UnicodeDecodeError)        *)
(*   "malformed"  board.json is not JSON (JSONDecodeError)                 *)
(*   "nonobject"  board.json is JSON but not an object                     *)
(*   "object"     board.json is a JSON object, data                        *)
(* A file system is [sep, boards, worktrees]: the separator of the         *)
(* platform, the listing of .copilot/boards and the listing of .worktrees, *)
(* whose entries carry the listing of their own .copilot/boards as data.   *)


\* name.startswith("_")
UnderscoreNames == {"_archived", "_old"}

\* str(path): the components joined by the separator of the platform.
RECURSIVE PathStr(_, _)
PathStr(parts, sep) ==
    IF Len(parts) = 1 THEN <<parts[1]>>
    ELSE PathStr(SubSeq(parts, 1, Len(parts) - 1), sep)
           \o <<sep, parts[Len(parts)]>>

\* .replace("\\", "/")
ReplaceBackslash(t) == [i \in DOMAIN t |-> IF t[i] = "\\" THEN "/" ELSE t[i]]

\* _scan_boards_dir: boards_dir is a listing and rel the components of
\* boards_dir relative to base_for_relative.  [raise, boards]
RECURSIVE ScanEntries(_, _, _, _)
ScanEntries(entries, i, rel, sep) ==
    IF i > Len(entries) THEN [raise |-> FALSE, boards |-> <<>>]
    ELSE LET board_dir == entries[i]
             rest == ScanEntries(entries, i + 1, rel, sep)
         IN CASE board_dir.kind = "file" \/ board_dir.name \in UnderscoreNames
                   -> rest
              [] board_dir.kind \in {"empty", "unreadable", "malformed"} -> rest
              [] board_dir.kind \in {"notutf8", "nonobject"} ->
                   [raise |-> TRUE, boards |-> <<>>]
              [] OTHER ->
                   IF rest.raise THEN rest
                   ELSE [raise |-> FALSE,
                         boards |->
                           <<[data |-> board_dir.data,
                              _board_path |->
                                ReplaceBackslash(PathStr(
                                  rel \o <<board_dir.name, "board.json">>,
                                  sep))]>> \o rest.boards]

_scan_boards_dir(boards_dir, rel, sep) ==
    IF ~boards_dir.isdir THEN [raise |-> FALSE, boards |-> <<>>]
    ELSE ScanEntries(boards_dir.entries, 1, rel, sep)

\* The components of a worktree's board directory relative to the repo root
\* (or, not what the code does, to the worktree).
RelBoardsDir(name, toRepoRoot) ==
    IF toRepoRoot THEN <<".worktrees", name, ".copilot", "boards">>
    ELSE <<".copilot", "boards">>

\* The loop of find_active_boards over the entries of .worktrees.
RECURSIVE ScanWorktrees(_, _, _, _)
ScanWorktrees(entries, i, sep, toRepoRoot) ==
    IF i > Len(entries) THEN [raise |-> FALSE, boards |-> <<>>]
    ELSE LET wt_dir == entries[i]
             here == IF wt_dir.kind = "file"
                     THEN [raise |-> FALSE, boards |-> <<>>]
                     ELSE _scan_boards_dir(wt_dir.data,
                                           RelBoardsDir(wt_dir.name, toRepoRoot),
                                           sep)
             rest == ScanWorktrees(entries, i + 1, sep, toRepoRoot)
         IN IF here.raise \/ rest.raise THEN [raise |-> TRUE, boards |-> <<>>]
            ELSE [raise |-> FALSE, boards |-> here.boards \o rest.boards]

\* A mutation of find_active_boards: the paths of a worktree's boards are
\* relative to the worktree.
FindActiveBoardsWorktreeRelative(fs) ==
    LET root == _scan_boards_dir(fs.boards, <<".copilot", "boards">>, fs.sep)
        wts == IF fs.worktrees.isdir
               THEN ScanWorktrees(fs.worktrees.entries, 1, fs.sep, FALSE)
               ELSE [raise |-> FALSE, boards |-> <<>>]
    IN IF root.raise \/ wts.raise THEN [raise |-> TRUE, boards |-> <<>>]
       ELSE [raise |-> FALSE, boards |-> root.boards \o wts.boards]

find_active_boards(fs) ==
    LET root == _scan_boards_dir(fs.boards, <<".copilot", "boards">>, fs.sep)
        wts == IF fs.worktrees.isdir
               THEN ScanWorktrees(fs.worktrees.entries, 1, fs.sep, TRUE)
               ELSE [raise |-> FALSE, boards |-> <<>>]
    IN IF root.raise \/ wts.raise THEN [raise |-> TRUE, boards |-> <<>>]
       ELSE [raise |-> FALSE, boards |-> root.boards \o wts.boards]

-----------------------------------------------------------------------------
(* resolve_worktree_root called on one path, in a repository whose         *)
(* worktree container holds any of the directories of ResolveNames         *)

ResolveNames == {"foo", "gone"}

ResolvePaths ==
    {NoneT, <<>>}
      \cup {<<s>> : s \in {"/", "/repo", "/repo/src/a.py", "/repo/.worktrees",
                           "/repo/.worktrees/foo", "/repo/.worktrees/foo/a.py",
                           "/repo/.worktrees/gone",
                           "/repo/.worktrees/gone/a.py",
                           "/repo/.worktrees/foo/..",
                           "/repo/.worktrees/foo/../../src/a.py",
                           "/repo/src/../.worktrees/./foo/a.py",
                           "/repo/.worktrees/README.md",
                           "/repo/.worktrees2/foo/a.py", "/elsewhere",
                           "/worktrees/foo", "/tmp/x", "src/a.py"}}

InitResolve ==
    /\ dirs \in SUBSET ResolveNames
    /\ vcs = [d \in AllDirs |-> Failed("missing")]
    /\ settingsFile = [json |-> "missing", keys |-> {}, user |-> None,
                       format |-> None]
    /\ pc = "call"
    /\ event = NoEvent
    /\ run = NoRun
    /\ arg \in [file_path : ResolvePaths]
    /\ ret = NoneT
    /\ tree = [d \in AllDirs |-> CleanTree]
    /\ boardDirs = [c \in Containers |-> NoDir]
    /\ blocked = FALSE
    /\ gateFile = NoFile
    /\ _entries = <<>>
    /\ _history = None
    /\ calls = <<>>

CallResolveWorktreeRoot ==
    /\ pc = "call"
    /\ ret' = ResolveWorktreeRoot(arg.file_path, RepoDir, dirs)
    /\ pc' = "returned"
    /\ UNCHANGED <<dirs, vcs, settingsFile, event, run, arg>>
    /\ UNCHANGED <<tree, boardDirs, blocked, gateFile,
                   _entries, _history, calls>>

SpecResolve == InitResolve /\ [][CallResolveWorktreeRoot]_vars

-----------------------------------------------------------------------------
(* find_active_boards called on one file system: up to two board           *)
(* directories under the repo root and up to MaxWorktrees entries of the   *)
(* worktree container, each with at most one board directory               *)

MaxWorktrees == 2

\* The content of a board.json that is a JSON object: flow_state is None
\* when the key is missing, artifacts maps each name to "missing" (no key),
\* "null" or "present".
ArtifactNames ==
    {"impact_analysis", "execution_plan", "implementation", "test_results",
     "review_findings"}
Board(feature_id, flow_state, artifacts) ==
    [feature_id |-> feature_id, flow_state |-> flow_state,
     artifacts |-> artifacts]
AllPresent == [a \in ArtifactNames |-> "present"]

BoardEntry(name, kind) ==
    [name |-> name, kind |-> kind, data |-> Board(name, "completed", AllPresent)]

RootEntries ==
    {BoardEntry("feat-a", k) : k \in {"file", "empty", "unreadable", "notutf8",
                                      "malformed", "nonobject", "object"}}
      \cup {BoardEntry("feat-c", k) : k \in {"nonobject", "object"}}
      \cup {BoardEntry("_archived", "object")}

WorktreeEntries ==
    [name : {"foo", "bar", "_old"}, kind : {"dir"},
     data : {NoDir, Dir(<<>>), Dir(<<BoardEntry("feat-b", "object")>>),
             Dir(<<BoardEntry("feat-b", "nonobject")>>)}]
      \cup [name : {"foo", "bar", "_old"}, kind : {"file"}, data : {NoDir}]

\* The listings of at most n entries of S, no name twice.
RECURSIVE Listings(_, _)
Listings(S, n) ==
    IF n = 0 THEN {<<>>}
    ELSE LET shorter == Listings(S, n - 1)
             longest == {l \in shorter : Len(l) = n - 1}
         IN shorter
              \cup {Append(x[1], x[2]) :
                      x \in {y \in longest \X S :
                               \A i \in DOMAIN y[1] : y[1][i].name # y[2].name}}

ScanArgs ==
    [sep : {"/", "\\"},
     boards : {NoDir} \cup {Dir(l) : l \in Listings(RootEntries, 2)},
     worktrees : {NoDir} \cup {Dir(l) : l \in Listings(WorktreeEntries,
                                                       MaxWorktrees)}]

InitScan ==
    /\ dirs = {}
    /\ vcs = [d \in AllDirs |-> Failed("missing")]
    /\ settingsFile = [json |-> "missing", keys |-> {}, user |-> None,
                       format |-> None]
    /\ pc = "call"
    /\ event = NoEvent
    /\ run = NoRun
    /\ arg \in ScanArgs
    /\ ret = NoneT
    /\ tree = [d \in AllDirs |-> CleanTree]
    /\ boardDirs = [c \in Containers |-> NoDir]
    /\ blocked = FALSE
    /\ gateFile = NoFile
    /\ _entries = <<>>
    /\ _history = None
    /\ calls = <<>>

CallFindActiveBoards ==
    /\ pc = "call"
    /\ ret' = find_active_boards(arg)
    /\ pc' = "returned"
    /\ UNCHANGED <<dirs, vcs, settingsFile, event, run, arg>>
    /\ UNCHANGED <<tree, boardDirs, blocked, gateFile,
                   _entries, _history, calls>>

SpecScan == InitScan /\ [][CallFindActiveBoards]_vars

-----------------------------------------------------------------------------
(* hook_utils.py and stop_check.py: the stop-time check.  The state of a   *)
(* working tree is [porcelain, short]: the outcomes of `git status         *)
(* --porcelain` and of `git status --short` there, each [kind, stdout]     *)
(* with stdout a sequence of lines.                                        *)

BlankLines == {"", " "}
\* The line without its leading blanks.
LStripLine(l) ==
    CASE l = " M a.py" -> "M a.py"
      [] l = " D c.py" -> "D c.py"
      [] OTHER -> l

\* text.strip(), on the lines of the text
RECURSIVE StripText(_)
StripText(lines) ==
    IF lines = <<>> THEN <<>>
    ELSE IF lines[1] \in BlankLines THEN StripText(SubSeq(lines, 2, Len(lines)))
    ELSE IF lines[Len(lines)] \in BlankLines
         THEN StripText(SubSeq(lines, 1, Len(lines) - 1))
    ELSE <<LStripLine(lines[1])>> \o SubSeq(lines, 2, Len(lines))

\* has_uncommitted_changes: the return code is not looked at.
has_uncommitted_changes(t) ==
    CASE t.porcelain.kind \in {"ok", "nonzero"} ->
           StripText(t.porcelain.stdout) # <<>>
      [] OTHER -> FALSE      \* TimeoutExpired, FileNotFoundError

\* get_uncommitted_summary: <<>> is the empty string.
get_uncommitted_summary(t) ==
    CASE t.short.kind = "ok" -> StripText(t.short.stdout)
      [] OTHER -> <<>>

\* len(summary.strip().splitlines()) if summary else 0
FileCount(summary) == IF summary # <<>> THEN Len(StripText(summary)) ELSE 0

\* A mutation of check_uncommitted: the issue is made without asking whether
\* the tree has changes.
CheckUncommittedAlways(t, branch) ==
    IF IsMainBranch(branch) THEN <<>>
    ELSE LET summary == get_uncommitted_summary(t) IN
         <<[kind |-> "root", file_count |-> FileCount(summary),
            branch |-> branch, summary |-> summary]>>

\* check_uncommitted, on the tree of the repo root
check_uncommitted(t, branch) ==
    IF IsMainBranch(branch) THEN <<>>
    ELSE IF has_uncommitted_changes(t)
    THEN LET summary == get_uncommitted_summary(t) IN
         <<[kind |-> "root", file_count |-> FileCount(summary),
            branch |-> branch, summary |-> summary]>>
    ELSE <<>>

\* The entries of .worktrees in the order iterdir yields them.
RECURSIVE IterDir(_)
IterDir(names) ==
    IF names = {} THEN <<>>
    ELSE LET n == CHOOSE n \in names : TRUE IN <<n>> \o IterDir(names \ {n})

\* get_worktree_branches: the worktrees whose branch query reports a branch,
\* as a sequence of [name, branch] in insertion order.
RECURSIVE WorktreeBranches(_, _, _)
WorktreeBranches(names, i, v) ==
    IF i > Len(names) THEN <<>>
    ELSE LET branch == GetCurrentBranch(v[RepoDir \o <<".worktrees", names[i]>>])
         IN (IF Truthy(branch) THEN <<[name |-> names[i], branch |-> branch]>>
             ELSE <<>>) \o WorktreeBranches(names, i + 1, v)

get_worktree_branches(ds, v) == WorktreeBranches(IterDir(ds), 1, v)

\* check_worktree_uncommitted; tr maps a directory to the state of its tree.
RECURSIVE WorktreeIssues(_, _, _)
WorktreeIssues(wt_branches, i, tr) ==
    IF i > Len(wt_branches) THEN <<>>
    ELSE LET wt == wt_branches[i]
             t == tr[RepoDir \o <<".worktrees", wt.name>>]
             summary == get_uncommitted_summary(t)
         IN (IF has_uncommitted_changes(t)
             THEN <<[kind |-> "worktree", name |-> wt.name,
                     branch |-> wt.branch, file_count |-> FileCount(summary),
                     summary |-> summary]>>
             ELSE <<>>) \o WorktreeIssues(wt_branches, i + 1, tr)

check_worktree_uncommitted(ds, v, tr) ==
    WorktreeIssues(get_worktree_branches(ds, v), 1, tr)

\* expected_artifacts.get(flow_state, [])
expected_artifacts(flow_state) ==
    CASE flow_state = "analyzing" -> <<>>
      [] flow_state = "designing" -> <<"impact_analysis">>
      [] flow_state = "planned" -> <<"impact_analysis">>
      [] flow_state = "implementing" -> <<"execution_plan">>
      [] flow_state = "testing" -> <<"implementation">>
      [] flow_state = "reviewing" -> <<"implementation", "test_results">>
      [] flow_state = "approved" -> <<"implementation", "review_findings">>
      [] flow_state = "documenting" -> <<"implementation", "review_findings">>
      [] flow_state = "submitting" -> <<"implementation">>
      [] OTHER -> <<>>

\* A mutation of Missing: an artifact whose value is null counts as there.
RECURSIVE MissingKeyOnly(_, _, _)
MissingKeyOnly(expected, i, artifacts) ==
    IF i > Len(expected) THEN <<>>
    ELSE (IF artifacts[expected[i]] = "missing"
          THEN <<expected[i]>> ELSE <<>>)
           \o MissingKeyOnly(expected, i + 1, artifacts)

\* The expected artifacts the board lacks: artifacts.get(name) is None.
RECURSIVE Missing(_, _, _)
Missing(expected, i, artifacts) ==
    IF i > Len(expected) THEN <<>>
    ELSE (IF artifacts[expected[i]] \in {"missing", "null"}
          THEN <<expected[i]>> ELSE <<>>) \o Missing(expected, i + 1, artifacts)

\* A mutation of BoardIssues: a board that lacks artifacts is not flagged
\* as mid-workflow as well.
BoardIssuesEither(board) ==
    LET feature_id == IF board.data.feature_id = None THEN "?"
                      ELSE board.data.feature_id
        flow_state == IF board.data.flow_state = None THEN "initialized"
                      ELSE board.data.flow_state
        missing == Missing(expected_artifacts(flow_state), 1,
                           board.data.artifacts)
    IN IF missing # <<>>
       THEN <<[kind |-> "missing", feature_id |-> feature_id,
               board_path |-> board._board_path, flow_state |-> flow_state,
               missing |-> missing]>>
       ELSE IF flow_state \notin {"initialized", "completed"}
       THEN <<[kind |-> "mid", feature_id |-> feature_id,
               flow_state |-> flow_state]>>
       ELSE <<>>

\* The body of the loop of check_board_consistency: the issues of one board.
BoardIssues(board) ==
    LET feature_id == IF board.data.feature_id = None THEN "?"
                      ELSE board.data.feature_id
        flow_state == IF board.data.flow_state = None THEN "initialized"
                      ELSE board.data.flow_state
        missing == Missing(expected_artifacts(flow_state), 1,
                           board.data.artifacts)
    IN (IF missing # <<>>
        THEN <<[kind |-> "missing", feature_id |-> feature_id,
                board_path |-> board._board_path, flow_state |-> flow_state,
                missing |-> missing]>>
        ELSE <<>>)
         \o (IF flow_state \notin {"initialized", "completed"}
             THEN <<[kind |-> "mid", feature_id |-> feature_id,
                     flow_state |-> flow_state]>>
             ELSE <<>>)

RECURSIVE check_board_consistency(_)
check_board_consistency(boards) ==
    IF boards = <<>> THEN <<>>
    ELSE BoardIssues(boards[1])
           \o check_board_consistency(SubSeq(boards, 2, Len(boards)))

\* What main writes: {} or the block decision, whose reason lists the issues.
EmptyDecision == [decision |-> "none", reason |-> <<>>]
Block(all_issues) == [decision |-> "block", reason |-> all_issues]

\* A mutation of StopMain: the continuation flag is not looked at.
StopMainNoFlag(ev, ds, v, tr, fs) ==
    LET repo_root == FindRepoRoot(ev.cwd)
        branch == GetCurrentBranch(v[repo_root])
        scan == find_active_boards(fs)
        all_issues == check_uncommitted(tr[repo_root], branch)
                        \o check_worktree_uncommitted(ds, v, tr)
                        \o check_board_consistency(scan.boards)
    IN IF scan.raise
       THEN [issues |-> <<>>, stdout |-> <<>>, exit |-> "raise"]
       ELSE [issues |-> all_issues,
             stdout |-> <<IF all_issues # <<>> THEN Block(all_issues)
                          ELSE EmptyDecision>>,
             exit |-> "ok"]

\* A mutation of StopMain: on a continuation the trees are not looked at
\* but the boards still are.
StopMainFlagSkipsTrees(ev, ds, v, tr, fs) ==
    LET repo_root == FindRepoRoot(ev.cwd)
        branch == GetCurrentBranch(v[repo_root])
        scan == find_active_boards(fs)
        all_issues == (IF ev.stop_hook_active THEN <<>>
                       ELSE check_uncommitted(tr[repo_root], branch)
                              \o check_worktree_uncommitted(ds, v, tr))
                        \o check_board_consistency(scan.boards)
    IN IF scan.raise
       THEN [issues |-> <<>>, stdout |-> <<>>, exit |-> "raise"]
       ELSE [issues |-> all_issues,
             stdout |-> <<IF all_issues # <<>> THEN Block(all_issues)
                          ELSE EmptyDecision>>,
             exit |-> "ok"]

\* stop_check.py main: ev is the hook input [stop_hook_active, cwd], fs the
\* file system the board scan reads.  [issues, stdout, exit]
StopMain(ev, ds, v, tr, fs) ==
    IF ev.stop_hook_active
    THEN [issues |-> <<>>, stdout |-> <<EmptyDecision>>, exit |-> "ok"]
    ELSE LET repo_root == FindRepoRoot(ev.cwd)
             branch == GetCurrentBranch(v[repo_root])
             scan == find_active_boards(fs)
             all_issues == check_uncommitted(tr[repo_root], branch)
                             \o check_worktree_uncommitted(ds, v, tr)
                             \o check_board_consistency(scan.boards)
         IN IF scan.raise
            THEN [issues |-> <<>>, stdout |-> <<>>, exit |-> "raise"]
            ELSE [issues |-> all_issues,
                  stdout |-> <<IF all_issues # <<>> THEN Block(all_issues)
                               ELSE EmptyDecision>>,
                  exit |-> "ok"]

-----------------------------------------------------------------------------
(* check_board_consistency called on up to MaxBoards scanned boards        *)

MaxBoards == 2

FlowStates ==
    {None, "initialized", "analyzing", "designing", "planned", "implementing",
     "testing", "reviewing", "approved", "documenting", "submitting",
     "completed", "on_hold"}

ArtifactMaps ==
    {AllPresent,
     [a \in ArtifactNames |-> "missing"],
     [a \in ArtifactNames |-> IF a = "implementation" THEN "null" ELSE "present"],
     [a \in ArtifactNames |-> IF a = "implementation" THEN "present"
                              ELSE "missing"]}

BoardNames == <<"feat-a", "feat-b", "feat-c">>
BoardPath(rel, name) ==
    ReplaceBackslash(PathStr(rel \o <<name, "board.json">>, "/"))

\* The boards a scan returns for the contents of args.
ScannedBoards(contents) ==
    [i \in DOMAIN contents |->
       [data |-> contents[i],
        _board_path |-> BoardPath(<<".copilot", "boards">>, BoardNames[i])]]

BoardArgs ==
    UNION {[1..n -> {Board("f", st, m) : st \in FlowStates, m \in ArtifactMaps}] :
             n \in 0..MaxBoards}

InitBoards ==
    /\ dirs = {}
    /\ vcs = [d \in AllDirs |-> Failed("missing")]
    /\ settingsFile = [json |-> "missing", keys |-> {}, user |-> None,
                       format |-> None]
    /\ pc = "call"
    /\ event = NoEvent
    /\ run = NoRun
    /\ arg \in BoardArgs
    /\ ret = NoneT
    /\ tree = [d \in AllDirs |-> CleanTree]
    /\ boardDirs = [c \in Containers |-> NoDir]
    /\ blocked = FALSE
    /\ gateFile = NoFile
    /\ _entries = <<>>
    /\ _history = None
    /\ calls = <<>>

CallCheckBoardConsistency ==
    /\ pc = "call"
    /\ ret' = check_board_consistency(ScannedBoards(arg))
    /\ pc' = "returned"
    /\ UNCHANGED <<dirs, vcs, settingsFile, event, run, arg>>
    /\ UNCHANGED <<tree, boardDirs, blocked, gateFile,
                   _entries, _history, calls>>

SpecBoards == InitBoards /\ [][CallCheckBoardConsistency]_vars

-----------------------------------------------------------------------------
(* The stop-time check in a repository with at most one worktree           *)

StatusLines == <<" M a.py", "?? b.py">>
TreeStates ==
    { CleanTree,
      [porcelain |-> [kind |-> "ok", stdout |-> StatusLines \o <<"">>],
       short |-> [kind |-> "ok", stdout |-> StatusLines \o <<"">>]],
      [porcelain |-> [kind |-> "ok", stdout |-> StatusLines \o <<"">>],
       short |-> [kind |-> "timeout", stdout |-> <<>>]],
      [porcelain |-> [kind |-> "timeout", stdout |-> <<>>],
       short |-> [kind |-> "timeout", stdout |-> <<>>]] }

OnlyImplementation ==
    [a \in ArtifactNames |-> IF a = "implementation" THEN "present"
                             ELSE "missing"]
BoardContents ==
    { Board(None, None, [a \in ArtifactNames |-> "missing"]),
      Board("f", "testing", [a \in ArtifactNames |-> "missing"]),
      Board("f", "testing", OnlyImplementation),
      Board("f", "reviewing", OnlyImplementation),
      Board("f", "completed", AllPresent) }

\* The listings of the .copilot/boards of container c.
BoardListings(c) ==
    LET name == IF c = "root" THEN "feat-a" ELSE "feat-b" IN
    {NoDir, Dir(<<[name |-> name, kind |-> "nonobject",
                   data |-> Board(None, None, AllPresent)]>>)}
      \cup {Dir(<<[name |-> name, kind |-> "object", data |-> b]>>) :
              b \in BoardContents}

\* The file system the board scan of the repository reads.
FileSystem(ds, bd) ==
    LET names == IterDir(ds) IN
    [sep |-> "/", boards |-> bd["root"],
     worktrees |-> Dir([i \in DOMAIN names |->
                          [name |-> names[i], kind |-> "dir",
                           data |-> bd[names[i]]]])]

StopEvents == [stop_hook_active : BOOLEAN, cwd : {<<"/repo">>}]

\* A hook process handles one Stop event.
Stop ==
    /\ pc = "idle"
    /\ \E e \in StopEvents :
         /\ event' = e
         /\ run' = StopMain(e, dirs, vcs, tree, FileSystem(dirs, boardDirs))
    /\ pc' = "done"
    /\ UNCHANGED <<dirs, vcs, settingsFile, arg, ret, tree, boardDirs, blocked,
                   gateFile,
                   _entries, _history, calls>>

\* The process ends; the host remembers whether the stop was blocked.
StopExit ==
    /\ pc = "done"
    /\ pc' = "idle"
    /\ blocked' = (run.exit = "ok" /\ run.stdout[1].decision = "block")
    /\ event' = NoEvent
    /\ run' = NoRun
    /\ UNCHANGED <<dirs, vcs, settingsFile, arg, ret, tree, boardDirs, gateFile,
                   _entries, _history, calls>>

\* Files are edited, committed, or the status query fails, in directory d.
TreeChange(d, t) ==
    /\ pc = "idle"
    /\ IsDir(d)
    /\ t # tree[d]
    /\ tree' = [tree EXCEPT ![d] = t]
    /\ UNCHANGED <<dirs, vcs, settingsFile, pc, event, run, arg, ret, boardDirs,
                   blocked, gateFile,
                   _entries, _history, calls>>

\* The boards of container c are written.
WriteBoards(c, l) ==
    /\ pc = "idle"
    /\ c = "root" \/ c \in dirs
    /\ l # boardDirs[c]
    /\ boardDirs' = [boardDirs EXCEPT ![c] = l]
    /\ UNCHANGED <<dirs, vcs, settingsFile, pc, event, run, arg, ret, tree,
                   blocked, gateFile,
                   _entries, _history, calls>>

NextStop ==
    \/ Stop
    \/ StopExit
    \/ \E b \in BranchNames : GitCheckout(RepoDir, b)
    \/ \E d \in AllDirs : GitFault(d, Failed("timeout"))
    \/ \E n \in WtNames : WorktreeAdd(n, "alice/feat")
    \/ \E n \in WtNames : WorktreeRemove(n)
    \/ \E d \in AllDirs, t \in TreeStates : TreeChange(d, t)
    \/ \E c \in Containers : \E l \in BoardListings(c) : WriteBoards(c, l)

SpecStop == Init /\ [][NextStop]_vars

-----------------------------------------------------------------------------
(* session_start.py: build_board_summary.  A board is the parsed dict of a  *)
(* board.json; a dict is a record whose fields hold Absent for the keys it  *)
(* lacks, gates and artifacts are sequences of name/value pairs in the      *)
(* order of the dict.  A line of text is a sequence of atoms.               *)

Absent == "<absent>"

\* dict.get(key, default)
Get(v, default) == IF v = Absent THEN default ELSE v

\* A dict-valued key of a board: the key is missing, or holds the items of
\* the dict in their order.
NoKey == [kind |-> "absent"]
Dict(items) == [kind |-> "dict", items |-> items]

\* board.get(key, {}).items()
Items(v) == IF v.kind = "absent" THEN <<>> ELSE v.items

\* The text an f-string puts for a value.
Fmt(v) == IF v = None THEN "None" ELSE v

\* sep.join(parts), each part a sequence of atoms.
RECURSIVE Join(_, _)
Join(parts, sep) ==
    IF parts = <<>> THEN <<>>
    ELSE IF Len(parts) = 1 THEN parts[1]
    ELSE parts[1] \o <<sep>> \o Join(Tail(parts), sep)

SessionGateStatus(gate_data) ==
    IF gate_data.isdict THEN Get(gate_data.status, "unknown") ELSE "unknown"

RECURSIVE gate_summary_parts(_, _)
gate_summary_parts(gates, i) ==
    IF i > Len(gates) THEN <<>>
    ELSE LET status == SessionGateStatus(gates[i].data)
             rest == gate_summary_parts(gates, i + 1)
         IN  IF status # "not_reached"
             THEN <<<<gates[i].name, "=", Fmt(status)>>>> \o rest
             ELSE rest

gate_summary(gates) ==
    LET parts == gate_summary_parts(gates, 1)
    IN  IF parts # <<>> THEN Join(parts, ", ") ELSE <<"all not_reached">>

\* Every scanned board holds _board_path, a sequence of atoms.
BoardLine(board) ==
    <<"- Feature: ", Fmt(Get(board.feature_id, "unknown")),
      " | State: ", Fmt(Get(board.flow_state, "unknown")),
      " | Maturity: ", Fmt(Get(board.maturity, "unknown")),
      " | Cycle: ", Fmt(Get(board.cycle, "1")),
      " | Profile: ", Fmt(Get(board.gate_profile, "unknown")),
      " | Gates: [">>
    \o gate_summary(Items(board.gates))
    \o <<"] | Path: ">> \o board._board_path

\* The lines of the summary ("\n".join(lines)).
build_board_summary(boards) ==
    IF boards = <<>> THEN <<<<"No active boards.">>>>
    ELSE [i \in DOMAIN boards |-> BoardLine(boards[i])]

MaxGates == 2

\* The boards of a summary: none, feat-a, or feat-a and feat-b.
SummaryNames == <<"feat-a", "feat-b">>

GateNames == <<"analysis_gate", "test_gate", "review_gate">>
GateStatuses == {Absent, None, "not_reached", "passed"}
GateData ==
    {[isdict |-> TRUE, status |-> s] : s \in GateStatuses}
    \cup {[isdict |-> FALSE, status |-> Absent]}
GateMaps ==
    {NoKey} \cup
    UNION {{Dict([i \in 1..n |-> [name |-> GateNames[i], data |-> f[i]]]) :
              f \in [1..n -> GateData]} : n \in 0..MaxGates}

SummaryBoard(name, gates, artifacts) ==
    [feature_id |-> name, flow_state |-> "implementing", maturity |-> Absent,
     cycle |-> "2", gate_profile |-> "standard", gates |-> gates,
     artifacts |-> artifacts,
     _board_path |-> BoardPath(<<".copilot", "boards">>, name)]

\* The gates of the second board: none recorded, one passed, one without
\* status.
SecondGates ==
    {NoKey,
     Dict(<<[name |-> "analysis_gate",
             data |-> [isdict |-> TRUE, status |-> "passed"]]>>),
     Dict(<<[name |-> "analysis_gate",
             data |-> [isdict |-> TRUE, status |-> Absent]]>>)}
SummaryArgs ==
    {<<>>}
    \cup {<<SummaryBoard(SummaryNames[1], g, NoKey)>> : g \in GateMaps}
    \cup {<<SummaryBoard(SummaryNames[1], g, NoKey),
            SummaryBoard(SummaryNames[2], h, NoKey)>> :
            g \in GateMaps, h \in SecondGates}

InitSummary ==
    /\ dirs = {}
    /\ vcs = [d \in AllDirs |-> Failed("missing")]
    /\ settingsFile = [json |-> "missing", keys |-> {}, user |-> None,
                       format |-> None]
    /\ pc = "call"
    /\ event = NoEvent
    /\ run = NoRun
    /\ arg \in SummaryArgs
    /\ ret = NoneT
    /\ tree = [d \in AllDirs |-> CleanTree]
    /\ boardDirs = [c \in Containers |-> NoDir]
    /\ blocked = FALSE
    /\ gateFile = NoFile
    /\ _entries = <<>>
    /\ _history = None
    /\ calls = <<>>

CallBuildBoardSummary ==
    /\ pc = "call"
    /\ ret' = build_board_summary(arg)
    /\ pc' = "returned"
    /\ UNCHANGED <<dirs, vcs, settingsFile, event, run, arg>>
    /\ UNCHANGED <<tree, boardDirs, blocked, gateFile,
                   _entries, _history, calls>>

SpecSummary == InitSummary /\ [][CallBuildBoardSummary]_vars

-----------------------------------------------------------------------------
(* subagent_start.py: extract_nested_field, build_agent_context.  A JSON   *)
(* value is null, a string, a list of values or a dict (its items in       *)
(* order); a part of the context is a text and, where the text was cut,    *)
(* the number of characters kept of the atom that follows.                 *)

NullV == [kind |-> "null"]
StrV(text) == [kind |-> "str", text |-> text]
ListV(items) == [kind |-> "list", items |-> items]

HasKey(d, key) == \E i \in DOMAIN d.items : d.items[i].name = key

\* dict.get(key, default)
DictGet(d, key, default) ==
    IF HasKey(d, key)
    THEN d.items[CHOOSE i \in DOMAIN d.items : d.items[i].name = key].value
    ELSE default

\* board.get(key) on a scanned board.
BoardGet(board, key) ==
    IF key \notin DOMAIN board THEN NullV
    ELSE IF key \in {"artifacts", "gates"}
         THEN IF board[key].kind = "absent" THEN NullV ELSE board[key]
         ELSE IF board[key] = Absent THEN NullV ELSE StrV(board[key])

AGENT_BOARD_FIELDS(agent_type) ==
    CASE agent_type = "manager" ->
           <<<<"feature_id">>, <<"maturity">>, <<"cycle">>, <<"flow_state">>,
             <<"gate_profile">>, <<"artifacts", "impact_analysis">>,
             <<"artifacts", "execution_plan">>,
             <<"artifacts", "review_findings">>>>
      [] agent_type = "architect" ->
           <<<<"feature_id">>, <<"maturity">>, <<"flow_state">>,
             <<"artifacts", "impact_analysis">>,
             <<"artifacts", "architecture_decision">>>>
      [] agent_type = "developer" ->
           <<<<"feature_id">>, <<"maturity">>, <<"flow_state">>,
             <<"artifacts", "execution_plan">>,
             <<"artifacts", "architecture_decision">>,
             <<"artifacts", "review_findings">>,
             <<"artifacts", "implementation">>>>
      [] agent_type = "reviewer" ->
           <<<<"feature_id">>, <<"maturity">>, <<"flow_state">>,
             <<"artifacts", "execution_plan">>,
             <<"artifacts", "implementation">>,
             <<"artifacts", "test_results">>,
             <<"artifacts", "review_findings">>>>
      [] agent_type = "writer" ->
           <<<<"feature_id">>, <<"maturity">>, <<"flow_state">>,
             <<"artifacts", "execution_plan">>,
             <<"artifacts", "implementation">>,
             <<"artifacts", "review_findings">>>>
      [] OTHER -> <<>>

\* The text of a field path: its keys (field_path.split(".")) joined by ".".
FieldText(field_path) ==
    Join([i \in DOMAIN field_path |-> <<field_path[i]>>], ".")

RECURSIVE Lookup(_, _)
Lookup(current, keys) ==
    IF keys = <<>> THEN current
    ELSE IF current.kind = "dict"
         THEN Lookup(DictGet(current, Head(keys), NullV), Tail(keys))
         ELSE NullV

\* As extract_nested_field, looking past a value that is no dict.
ExtractNestedFieldAnyContainer(data, field_path) ==
    IF BoardGet(data, Head(field_path)).kind = "dict"
    THEN Lookup(BoardGet(data, Head(field_path)), Tail(field_path))
    ELSE BoardGet(data, Head(field_path))

\* The first key is looked up in the board, the others in what it holds.
extract_nested_field(data, field_path) ==
    Lookup(BoardGet(data, Head(field_path)), Tail(field_path))

\* str(value)
RECURSIVE StrOf(_, _)
StrOf(v, quoted) ==
    CASE v.kind = "null" -> <<"None">>
      [] v.kind = "str" -> IF quoted THEN <<"'", v.text, "'">> ELSE <<v.text>>
      [] v.kind = "list" ->
           <<"[">> \o Join([i \in DOMAIN v.items |-> StrOf(v.items[i], TRUE)],
                           ", ") \o <<"]">>
      [] v.kind = "dict" ->
           <<"{">> \o Join([i \in DOMAIN v.items |->
                              <<"'", v.items[i].name, "'", ": ">>
                              \o StrOf(v.items[i].value, TRUE)], ", ")
                  \o <<"}">>

FallbackLimit == 200

Part(text) == [text |-> text, cut |-> 0]

FieldPart(field_path, value) ==
    IF value.kind = "dict"
    THEN IF HasKey(value, "summary")
         THEN Part(FieldText(field_path) \o <<": ">>
                   \o StrOf(DictGet(value, "summary", NullV), FALSE))
         ELSE IF HasKey(value, "description")
         THEN Part(FieldText(field_path) \o <<": ">>
                   \o StrOf(DictGet(value, "description", NullV), FALSE))
         ELSE LET e == Truncate(StrOf(value, FALSE), FallbackLimit)
              IN  [text |-> FieldText(field_path) \o <<": ">> \o e.atoms,
                   cut |-> e.cut]
    ELSE IF value.kind = "list"
    THEN Part(FieldText(field_path)
              \o <<": [", ToString(Len(value.items)), " items]">>)
    ELSE Part(FieldText(field_path) \o <<": ">> \o StrOf(value, FALSE))

CoreFields == {<<"feature_id">>, <<"maturity">>, <<"flow_state">>,
               <<"cycle">>, <<"gate_profile">>}

RECURSIVE FieldParts(_, _, _)
FieldParts(fields, i, board) ==
    IF i > Len(fields) THEN <<>>
    ELSE IF fields[i] \in CoreFields THEN FieldParts(fields, i + 1, board)
    ELSE LET value == extract_nested_field(board, fields[i])
         IN  (IF value # NullV THEN <<FieldPart(fields[i], value)>> ELSE <<>>)
             \o FieldParts(fields, i + 1, board)

RECURSIVE active_gates(_, _)
active_gates(gates, i) ==
    IF i > Len(gates) THEN <<>>
    ELSE (IF gates[i].data.isdict /\ gates[i].data.status # "not_reached"
          THEN <<<<gates[i].name, "=", Fmt(Get(gates[i].data.status, "?"))>>>>
          ELSE <<>>)
         \o active_gates(gates, i + 1)

SettingsParts(agent_type, settings) ==
    IF settings.truthy
    THEN <<Part(<<"Issue tracker: ", Get(settings.provider, "none")>>)>>
         \o (IF settings.test_command \notin {Absent, ""}
                /\ agent_type = "developer"
             THEN <<Part(<<"Test command: ", settings.test_command>>)>>
             ELSE <<>>)
    ELSE <<>>

build_agent_context(agent_type, board, board_path, settings) ==
    <<Part(<<"[SubagentStart Hook \\u2014 Board Context for ", agent_type, "]">>),
      Part(<<"Board path: ">> \o board_path),
      Part(<<"Feature: ", Fmt(Get(board.feature_id, "?")),
             " | State: ", Fmt(Get(board.flow_state, "?")),
             " | Maturity: ", Fmt(Get(board.maturity, "?")),
             " | Cycle: ", Fmt(Get(board.cycle, "?")),
             " | Profile: ", Fmt(Get(board.gate_profile, "?"))>>)>>
    \o SettingsParts(agent_type, settings)
    \o FieldParts(AGENT_BOARD_FIELDS(agent_type), 1, board)
    \o (LET gates == active_gates(Items(board.gates), 1)
        IN  IF gates # <<>>
            THEN <<Part(<<"Gates: ">> \o Join(gates, ", "))>>
            ELSE <<>>)

MaxArtifacts == 2

AgentTypes == {"manager", "architect", "developer", "tester"}
AgentSettings ==
    {[truthy |-> FALSE, provider |-> Absent, test_command |-> Absent],
     [truthy |-> TRUE, provider |-> "linear", test_command |-> "pytest"]}
AgentGates == SecondGates

LongText == "the change touches the scanner and both of its callers."
LongNotes ==
    Dict(<<[name |-> "notes", value |-> StrV(LongText)],
           [name |-> "risks", value |-> StrV(LongText)],
           [name |-> "files", value |-> ListV(<<StrV(LongText), StrV(LongText)>>)]>>)
ArtifactValues ==
    {NullV, StrV("done"), ListV(<<StrV("a.py"), StrV("b.py")>>),
     Dict(<<[name |-> "summary", value |-> StrV("two files")],
            [name |-> "description", value |-> StrV("edits a.py and b.py")]>>),
     Dict(<<[name |-> "description", value |-> StrV("edits a.py and b.py")]>>),
     Dict(<<[name |-> "status", value |-> StrV("ok")]>>),
     LongNotes}
AgentArtifactNames == {"impact_analysis", "execution_plan", "implementation"}
ArtifactDicts ==
    UNION {{Dict([i \in 1..n |-> [name |-> ns[i], value |-> vs[i]]]) :
              ns \in {s \in [1..n -> AgentArtifactNames] :
                        \A i, j \in 1..n : i # j => s[i] # s[j]},
              vs \in [1..n -> ArtifactValues]} : n \in 0..MaxArtifacts}
AgentArtifacts == {NoKey, NullV, StrV("none yet")} \cup ArtifactDicts

AgentArgs ==
    [agent_type : AgentTypes,
     board : {SummaryBoard("feat-a", g, a) : g \in AgentGates,
                                              a \in AgentArtifacts},
     settings : AgentSettings]

InitAgent ==
    /\ dirs = {}
    /\ vcs = [d \in AllDirs |-> Failed("missing")]
    /\ settingsFile = [json |-> "missing", keys |-> {}, user |-> None,
                       format |-> None]
    /\ pc = "call"
    /\ event = NoEvent
    /\ run = NoRun
    /\ arg \in AgentArgs
    /\ ret = NoneT
    /\ tree = [d \in AllDirs |-> CleanTree]
    /\ boardDirs = [c \in Containers |-> NoDir]
    /\ blocked = FALSE
    /\ gateFile = NoFile
    /\ _entries = <<>>
    /\ _history = None
    /\ calls = <<>>

CallBuildAgentContext ==
    /\ pc = "call"
    /\ ret' = build_agent_context(arg.agent_type, arg.board,
                                  arg.board._board_path, arg.settings)
    /\ pc' = "returned"
    /\ UNCHANGED <<dirs, vcs, settingsFile, event, run, arg>>
    /\ UNCHANGED <<tree, boardDirs, blocked, gateFile,
                   _entries, _history, calls>>

SpecAgent == InitAgent /\ [][CallBuildAgentContext]_vars

-----------------------------------------------------------------------------
(* pre_compact.py: build_preservation_context.  The context is the        *)
(* sequence of its lines; a line that holds "\n" keeps it as an atom.      *)

SettingsLines(settings) ==
    IF settings.truthy
    THEN <<<<"Repo: ", Get(settings.owner, "?"), "/", Get(settings.repo, "?"),
             " (merge: ", Get(settings.mergeMethod, "?"), ")">>,
           <<"Issue tracker: ", Get(settings.provider, "none")>>,
           <<"Branch: user=", Get(settings.user, "?"),
             ", format=", Get(settings.format, "?")>>,
           <<"Project: ", Get(settings.name, "?"),
             " (lang: ", Get(settings.language, "?"), ")">>>>
         \o (IF settings.test_command \notin {Absent, ""}
             THEN <<<<"Test: ", settings.test_command>>>>
             ELSE <<>>)
    ELSE <<>>

WorktreeLines(worktree_branches) ==
    IF worktree_branches # <<>>
    THEN <<<<"Worktrees:", "\n">>
           \o Join([i \in DOMAIN worktree_branches |->
                      <<"  ", worktree_branches[i].name, ": ",
                        worktree_branches[i].branch>>], "\n")>>
    ELSE <<>>

RECURSIVE CompactActiveGates(_, _)
CompactActiveGates(gates, i) ==
    IF i > Len(gates) THEN <<>>
    ELSE (IF gates[i].data.isdict
             /\ Get(gates[i].data.status, "not_reached") # "not_reached"
          THEN <<<<gates[i].name, "=", Fmt(gates[i].data.status)>>>>
          ELSE <<>>)
         \o CompactActiveGates(gates, i + 1)

\* As PresentArtifacts, keeping the artifacts whose value is truthy.
RECURSIVE PresentArtifactsTruthy(_, _)
PresentArtifactsTruthy(artifacts, i) ==
    IF i > Len(artifacts) THEN <<>>
    ELSE (IF artifacts[i].value \notin
               {NullV, StrV(""), ListV(<<>>), Dict(<<>>)}
          THEN <<<<artifacts[i].name>>>> ELSE <<>>)
         \o PresentArtifactsTruthy(artifacts, i + 1)

\* [k for k, v in artifacts.items() if v is not None]
RECURSIVE PresentArtifacts(_, _)
PresentArtifacts(artifacts, i) ==
    IF i > Len(artifacts) THEN <<>>
    ELSE (IF artifacts[i].value # NullV THEN <<<<artifacts[i].name>>>>
          ELSE <<>>)
         \o PresentArtifacts(artifacts, i + 1)

CompactBoardLines(board) ==
    <<<<"  Board: ">> \o board._board_path
      \o <<"\n", "  Feature: ", Fmt(Get(board.feature_id, "?")),
           " | State: ", Fmt(Get(board.flow_state, "?")),
           " | Maturity: ", Fmt(Get(board.maturity, "?")),
           " | Cycle: ", Fmt(Get(board.cycle, "?")),
           " | Profile: ", Fmt(Get(board.gate_profile, "?"))>>>>
    \o (LET gates == CompactActiveGates(Items(board.gates), 1)
        IN  IF gates # <<>> THEN <<<<"  Gates: ">> \o Join(gates, ", ")>>
            ELSE <<>>)
    \o (LET present == PresentArtifacts(Items(board.artifacts), 1)
        IN  IF present # <<>>
            THEN <<<<"  Artifacts present: ">> \o Join(present, ", ")>>
            ELSE <<>>)

RECURSIVE AllBoardLines(_, _)
AllBoardLines(boards, i) ==
    IF i > Len(boards) THEN <<>>
    ELSE CompactBoardLines(boards[i]) \o AllBoardLines(boards, i + 1)

build_preservation_context(settings, boards, branch, worktree_branches) ==
    <<<<"[PreCompact Hook \\u2014 Preserved Context]">>>>
    \o SettingsLines(settings)
    \o (IF Truthy(branch) THEN <<<<"Current branch: ", branch>>>> ELSE <<>>)
    \o WorktreeLines(worktree_branches)
    \o (IF boards # <<>>
        THEN <<<<"Active boards: ", ToString(Len(boards))>>>>
             \o AllBoardLines(boards, 1)
        ELSE <<<<"No active boards.">>>>)

CompactSettings ==
    {[truthy |-> FALSE, owner |-> Absent, repo |-> Absent,
      mergeMethod |-> Absent, provider |-> Absent, user |-> Absent,
      format |-> Absent, name |-> Absent, language |-> Absent,
      test_command |-> Absent],
     [truthy |-> TRUE, owner |-> "nanikasheila", repo |-> "framework",
      mergeMethod |-> Absent, provider |-> "linear", user |-> "alice",
      format |-> Absent, name |-> "framework", language |-> "python",
      test_command |-> "pytest"]}

CompactEnvs ==
    {[settings |-> CHOOSE s \in CompactSettings : ~s.truthy,
      branch |-> None, worktree_branches |-> <<>>],
     [settings |-> CHOOSE s \in CompactSettings : s.truthy,
      branch |-> "alice/feat",
      worktree_branches |-> <<[name |-> "foo", branch |-> "alice/feat"]>>]}

Contents ==
    {NullV, StrV(""),
     Dict(<<[name |-> "summary", value |-> StrV("rotate token-1234")]>>)}
CompactArtifactNames == <<"impact_analysis", "implementation", "test_results">>
CompactArtifacts ==
    {NoKey} \cup
    UNION {{Dict([i \in 1..n |-> [name |-> CompactArtifactNames[i],
                                  value |-> vs[i]]]) :
              vs \in [1..n -> Contents]} : n \in 0..MaxArtifacts}
CompactGates ==
    Dict(<<[name |-> "analysis_gate",
            data |-> [isdict |-> TRUE, status |-> "passed"]],
           [name |-> "test_gate",
            data |-> [isdict |-> TRUE, status |-> Absent]]>>)

CompactArgs ==
    UNION {{[env |-> e,
             boards |-> [i \in 1..n |->
                           SummaryBoard(SummaryNames[i], CompactGates, a[i])]] :
              e \in CompactEnvs, a \in [1..n -> CompactArtifacts]} :
             n \in 0..Len(SummaryNames)}

InitCompact ==
    /\ dirs = {}
    /\ vcs = [d \in AllDirs |-> Failed("missing")]
    /\ settingsFile = [json |-> "missing", keys |-> {}, user |-> None,
                       format |-> None]
    /\ pc = "call"
    /\ event = NoEvent
    /\ run = NoRun
    /\ arg \in CompactArgs
    /\ ret = NoneT
    /\ tree = [d \in AllDirs |-> CleanTree]
    /\ boardDirs = [c \in Containers |-> NoDir]
    /\ blocked = FALSE
    /\ gateFile = NoFile
    /\ _entries = <<>>
    /\ _history = None
    /\ calls = <<>>

CallBuildPreservationContext ==
    /\ pc = "call"
    /\ ret' = build_preservation_context(arg.env.settings, arg.boards,
                                         arg.env.branch,
                                         arg.env.worktree_branches)
    /\ pc' = "returned"
    /\ UNCHANGED <<dirs, vcs, settingsFile, event, run, arg>>
    /\ UNCHANGED <<tree, boardDirs, blocked, gateFile,
                   _entries, _history, calls>>

SpecCompact == InitCompact /\ [][CallBuildPreservationContext]_vars

-----------------------------------------------------------------------------
(* The hook input and the JSON files the handlers load.  A file or the     *)
(* standard input is missing (empty), malformed, or holds a JSON value.    *)

BoolV(b) == [kind |-> "bool", b |-> b]
JsonFile(value) == [json |-> "value", value |-> value]
Malformed == [json |-> "malformed"]

\* bool(value)
TruthyV(v) ==
    CASE v.kind = "null" -> FALSE
      [] v.kind = "str" -> v.text # ""
      [] v.kind = "bool" -> v.b
      [] v.kind \in {"list", "dict"} -> v.items # <<>>

\* read_hook_input: {} for an empty or malformed input, else the value read.
read_hook_input(stdin) ==
    IF stdin.json \in {"missing", "malformed"} THEN Dict(<<>>) ELSE stdin.value

\* load_gate_profiles: None for a missing or malformed file.
load_gate_profiles(file) ==
    IF file.json \in {"missing", "malformed"} THEN NullV ELSE file.value

\* The directory find_repo_root starts from: cwd, or the working directory
\* of the process (the workspace) when cwd is falsy.
StartDir(cwd) == IF TruthyV(cwd) THEN <<cwd.text>> ELSE <<"/repo">>

\* The board dict of a scanned board: the keys the file holds and
\* _board_path; the files hold feature_id, flow_state and artifacts.
ArtifactOrder ==
    <<"impact_analysis", "execution_plan", "implementation", "test_results",
      "review_findings">>
ArtifactItems(artifacts) ==
    LET held == SelectSeq(ArtifactOrder, LAMBDA a : artifacts[a] # "missing")
    IN  [i \in DOMAIN held |->
           [name |-> held[i],
            value |-> IF artifacts[held[i]] = "null" THEN NullV
                      ELSE StrV("done")]]
BoardDict(b) ==
    [feature_id |-> IF b.data.feature_id = None THEN Absent
                    ELSE b.data.feature_id,
     flow_state |-> IF b.data.flow_state = None THEN Absent
                    ELSE b.data.flow_state,
     maturity |-> Absent, cycle |-> Absent, gate_profile |-> Absent,
     gates |-> NoKey, artifacts |-> Dict(ArtifactItems(b.data.artifacts)),
     _board_path |-> b._board_path]
BoardDicts(boards) == [i \in DOMAIN boards |-> BoardDict(boards[i])]

\* What a handler wrote and how it ended: one output object and "ok", or an
\* exception that escaped main, nothing written.
Wrote(output) == [stdout |-> <<output>>, exit |-> "ok"]
Crashed == [stdout |-> <<>>, exit |-> "raise"]

-----------------------------------------------------------------------------
(* session_start.py: build_settings_summary, build_gate_summary, main *)

\* if settings: a settings file that holds a non-empty array is truthy too.
SettingsTruthy(settings) ==
    settings.json = "array" \/ (settings.json = "object" /\ settings.keys # {})

\* The sections of the settings files hold branch.user and branch.format
\* at most.  [raise, text]
build_settings_summary(settings) ==
    IF settings.json # "object" THEN [raise |-> TRUE, text |-> <<>>]
    ELSE [raise |-> FALSE,
          text |->
            <<"Repo: ", "?", "/", "?", " | ", "Merge: ", "?", " | ",
              "Issue tracker: ", "none">>
            \o (IF "branch" \in settings.keys /\ Truthy(settings.user)
                THEN <<" | ", "Branch user: ", settings.user>> ELSE <<>>)
            \o (IF "branch" \in settings.keys /\ Truthy(settings.format)
                THEN <<" | ", "Branch format: ", settings.format>> ELSE <<>>)
            \o <<" | ", "Project: ", "?", " (", "?", ")">>]

\* sum(1 for g in profile.values() if isinstance(g, dict) and
\*     g.get("required") is True)
RequiredCount(profile) ==
    Cardinality({i \in DOMAIN profile.items :
                   /\ profile.items[i].value.kind = "dict"
                   /\ DictGet(profile.items[i].value, "required", NullV)
                        = BoolV(TRUE)})

\* [raise, text]
build_gate_summary(gate_profiles) ==
    IF gate_profiles.kind # "dict" THEN [raise |-> TRUE, text |-> <<>>]
    ELSE LET profiles == DictGet(gate_profiles, "profiles", Dict(<<>>)) IN
         IF profiles.kind # "dict" THEN [raise |-> TRUE, text |-> <<>>]
         ELSE IF \E i \in DOMAIN profiles.items :
                   profiles.items[i].value.kind # "dict"
         THEN [raise |-> TRUE, text |-> <<>>]
         ELSE [raise |-> FALSE,
               text |->
                 <<"Gate profiles: ">>
                 \o Join([i \in DOMAIN profiles.items |->
                            <<profiles.items[i].name, "(",
                              ToString(RequiredCount(profiles.items[i].value)),
                              "/",
                              ToString(Len(profiles.items[i].value.items)),
                              " required)">>], ", ")]

\* session_start.py main: ev is the standard input, fs the file system the
\* board scan reads.
SessionStartMain(ev, ds, v, file, gfile, fs) ==
    LET hook_input == read_hook_input(ev)
        cwd == DictGet(hook_input, "cwd", NullV)
        repo_root == FindRepoRoot(StartDir(cwd))
        settings == LoadSettings(file)
        s == build_settings_summary(settings)
        gate_profiles == load_gate_profiles(gfile)
        g == build_gate_summary(gate_profiles)
        branch == GetCurrentBranch(v[repo_root])
        wt_branches == get_worktree_branches(ds, v)
        scan == find_active_boards(fs)
    IN  IF hook_input.kind # "dict" THEN Crashed
        ELSE IF TruthyV(cwd) /\ cwd.kind # "str" THEN Crashed
        ELSE IF SettingsTruthy(settings) /\ s.raise THEN Crashed
        ELSE IF TruthyV(gate_profiles) /\ g.raise THEN Crashed
        ELSE IF scan.raise THEN Crashed
        ELSE Wrote(
          [hookEventName |-> "SessionStart",
           additionalContext |->
             <<<<"[SessionStart Hook \\u2014 Project Context]">>>>
             \o (IF SettingsTruthy(settings)
                 THEN <<<<"Settings: ">> \o s.text>> ELSE <<>>)
             \o (IF TruthyV(gate_profiles) THEN <<g.text>> ELSE <<>>)
             \o (IF Truthy(branch)
                 THEN <<<<"Current branch: ", branch>>>> ELSE <<>>)
             \o (IF wt_branches # <<>>
                 THEN <<<<"Worktrees:">>>>
                      \o [i \in DOMAIN wt_branches |->
                            <<"  ", wt_branches[i].name, ": ",
                              wt_branches[i].branch>>]
                 ELSE <<>>)
             \o <<<<"Active boards:">>>>
             \o build_board_summary(BoardDicts(scan.boards))])

-----------------------------------------------------------------------------
(* subagent_start.py main, pre_compact.py main *)

\* The settings as build_agent_context reads them (the sections are empty).
AgentSettingsOf(settings) ==
    [truthy |-> SettingsTruthy(settings), provider |-> Absent,
     test_command |-> Absent]

SubagentStartMain(ev, file, fs) ==
    LET hook_input == read_hook_input(ev)
        cwd == DictGet(hook_input, "cwd", NullV)
        raw_type == DictGet(hook_input, "agent_type", StrV(""))
        agent_type == Lower(raw_type.text)
        scan == find_active_boards(fs)
        settings == LoadSettings(file)
        boards == BoardDicts(scan.boards)
    IN  IF hook_input.kind # "dict" THEN Crashed
        ELSE IF raw_type.kind # "str" THEN Crashed
        ELSE IF TruthyV(cwd) /\ cwd.kind # "str" THEN Crashed
        ELSE IF scan.raise THEN Crashed
        ELSE IF SettingsTruthy(settings) /\ settings.json # "object"
        THEN Crashed
        ELSE IF boards = <<>>
        THEN Wrote(
          [hookEventName |-> "SubagentStart",
           additionalContext |->
             <<Part(<<"[SubagentStart Hook \\u2014 No active Board found for ",
                      agent_type, "]">>)>>
             \o (IF SettingsTruthy(settings)
                 THEN <<Part(<<"Project: ", "?", " (", "?", ")">>)>>
                 ELSE <<>>)])
        ELSE Wrote(
          [hookEventName |-> "SubagentStart",
           additionalContext |->
             build_agent_context(agent_type, boards[1], boards[1]._board_path,
                                 AgentSettingsOf(settings))])

\* The settings as build_preservation_context reads them.
CompactSettingsOf(settings) ==
    [truthy |-> SettingsTruthy(settings), owner |-> Absent, repo |-> Absent,
     mergeMethod |-> Absent, provider |-> Absent,
     user |-> IF "branch" \in settings.keys /\ settings.user # None
              THEN settings.user ELSE Absent,
     format |-> IF "branch" \in settings.keys /\ settings.format # None
                THEN settings.format ELSE Absent,
     name |-> Absent, language |-> Absent, test_command |-> Absent]

PreCompactMain(ev, ds, v, file, fs) ==
    LET hook_input == read_hook_input(ev)
        cwd == DictGet(hook_input, "cwd", NullV)
        repo_root == FindRepoRoot(StartDir(cwd))
        settings == LoadSettings(file)
        scan == find_active_boards(fs)
        branch == GetCurrentBranch(v[repo_root])
        wt_branches == get_worktree_branches(ds, v)
    IN  IF hook_input.kind # "dict" THEN Crashed
        ELSE IF TruthyV(cwd) /\ cwd.kind # "str" THEN Crashed
        ELSE IF scan.raise THEN Crashed
        ELSE IF SettingsTruthy(settings) /\ settings.json # "object"
        THEN Crashed
        ELSE Wrote(
          [systemMessage |->
             build_preservation_context(CompactSettingsOf(settings),
                                        BoardDicts(scan.boards), branch,
                                        wt_branches)])

-----------------------------------------------------------------------------
(* tools/hooks/post_tool_use.py *)

WATCHED_DIRS == <<".github", ".copilot">>

\* [raise, paths]: the file tools of the events carry filePath only.
extract_file_paths(tool_name, tool_input) ==
    IF tool_name \notin {"create_file", "editFiles", "replace_string_in_file",
                         "multi_replace_string_in_file"}
    THEN [raise |-> FALSE, paths |-> <<>>]
    ELSE IF tool_input.kind # "dict" THEN [raise |-> TRUE, paths |-> <<>>]
    ELSE IF tool_name = "editFiles" THEN [raise |-> FALSE, paths |-> <<>>]
    ELSE LET path == DictGet(tool_input, "filePath", StrV("")) IN
         [raise |-> FALSE,
          paths |-> IF TruthyV(path) THEN <<path>> ELSE <<>>]

EndsWithJson(name) ==
    name \in {"settings.json", "gate-profiles.json", "board.json"}

is_watched_json(file_path, repo_root) ==
    LET resolved == PathParts(<<file_path>>) IN
    /\ IsPrefix(repo_root, resolved)
    /\ Len(resolved) > Len(repo_root) + 1
    /\ EndsWithJson(resolved[Len(resolved)])
    /\ \E i \in DOMAIN WATCHED_DIRS :
         resolved[Len(repo_root) + 1] = WATCHED_DIRS[i]

_validate_settings(file) ==
    IF file.json = "array"
    THEN [raise |-> TRUE, errors |-> <<>>]
    ELSE [raise |-> FALSE,
          errors |->
            SelectSeq(<<"github", "project">>, LAMBDA k : k \notin file.keys)
            \o <<"github.owner", "github.repo", "github.mergeMethod">>]

RECURSIVE ProfileErrors(_, _)
ProfileErrors(profiles, i) ==
    IF i > Len(profiles) THEN <<>>
    ELSE (IF profiles[i].value.kind # "dict" THEN <<profiles[i].name>>
          ELSE SelectSeq(
                 [k \in DOMAIN profiles[i].value.items |->
                    IF /\ profiles[i].value.items[k].value.kind = "dict"
                       /\ ~HasKey(profiles[i].value.items[k].value, "required")
                    THEN profiles[i].value.items[k].name ELSE ""],
                 LAMBDA e : e # ""))
         \o ProfileErrors(profiles, i + 1)

_validate_gate_profiles(data) ==
    IF data.kind # "dict" THEN [raise |-> TRUE, errors |-> <<>>]
    ELSE LET profiles == DictGet(data, "profiles", Dict(<<>>)) IN
         IF ~TruthyV(profiles)
         THEN [raise |-> FALSE, errors |-> <<"no profiles defined">>]
         ELSE IF profiles.kind # "dict" THEN [raise |-> TRUE, errors |-> <<>>]
         ELSE [raise |-> FALSE, errors |-> ProfileErrors(profiles.items, 1)]

ValidStates ==
    {"initialized", "analyzing", "designing", "planned", "implementing",
     "testing", "reviewing", "approved", "documenting", "submitting",
     "completed"}

_validate_board(board) ==
    [raise |-> FALSE,
     errors |->
       (IF board.feature_id = None THEN <<"feature_id">> ELSE <<>>)
       \o (IF board.flow_state = None THEN <<"flow_state">> ELSE <<>>)
       \o <<"maturity", "cycle", "gates">>
       \o (IF Truthy(board.flow_state) /\ board.flow_state \notin ValidStates
           THEN <<"invalid flow_state">> ELSE <<>>)]

\* validate_json_file on the file a path names: the settings file, the
\* gate-profile file or the board file of feat-a.  [raise, errors]
validate_json_file(name, file, gfile, bd) ==
    CASE name = "settings.json" ->
           IF file.json = "missing"
           THEN [raise |-> FALSE, errors |-> <<"File not found">>]
           ELSE IF file.json = "malformed"
           THEN [raise |-> FALSE, errors |-> <<"Invalid JSON">>]
           ELSE _validate_settings(file)
      [] name = "gate-profiles.json" ->
           IF gfile.json = "missing"
           THEN [raise |-> FALSE, errors |-> <<"File not found">>]
           ELSE IF gfile.json = "malformed"
           THEN [raise |-> FALSE, errors |-> <<"Invalid JSON">>]
           ELSE _validate_gate_profiles(gfile.value)
      [] name = "board.json" ->
           IF ~bd.isdir \/ bd.entries = <<>> \/ bd.entries[1].kind = "empty"
           THEN [raise |-> FALSE, errors |-> <<"File not found">>]
           ELSE IF bd.entries[1].kind = "malformed"
           THEN [raise |-> FALSE, errors |-> <<"Invalid JSON">>]
           ELSE IF bd.entries[1].kind = "object"
           THEN _validate_board(bd.entries[1].data)
           ELSE [raise |-> TRUE, errors |-> <<>>]

PostToolUseMain(ev, file, gfile, bd) ==
    LET hook_input == read_hook_input(ev)
        tool_name == DictGet(hook_input, "tool_name", StrV(""))
        tool_input == DictGet(hook_input, "tool_input", Dict(<<>>))
        cwd == DictGet(hook_input, "cwd", NullV)
        repo_root == FindRepoRoot(StartDir(cwd))
        x == extract_file_paths(tool_name.text, tool_input)
        watched == SelectSeq(x.paths,
                             LAMBDA q : is_watched_json(q.text, repo_root))
        checks == [i \in DOMAIN watched |->
                     LET parts == PathParts(<<watched[i].text>>) IN
                     validate_json_file(parts[Len(parts)], file, gfile, bd)]
        all_errors == IF watched = <<>> THEN <<>> ELSE checks[1].errors
    IN  IF hook_input.kind # "dict" THEN Crashed
        ELSE IF tool_name.kind # "str"
                \/ tool_name.text \notin FILE_EDIT_TOOLS
        THEN Wrote([hookEventName |-> "", additionalContext |-> <<>>])
        ELSE IF TruthyV(cwd) /\ cwd.kind # "str" THEN Crashed
        ELSE IF x.raise THEN Crashed
        ELSE IF \E i \in DOMAIN x.paths : x.paths[i].kind # "str"
        THEN Crashed
        ELSE IF \E i \in DOMAIN checks : checks[i].raise THEN Crashed
        ELSE IF watched = <<>>
        THEN Wrote([hookEventName |-> "", additionalContext |-> <<>>])
        ELSE IF all_errors # <<>>
        THEN Wrote(
          [hookEventName |-> "PostToolUse",
           additionalContext |->
             <<<<"[PostToolUse Hook \\u2014 JSON Validation FAILED]">>>>
             \o [i \in DOMAIN all_errors |-> <<"- ", all_errors[i]>>]
             \o <<<<"Fix these errors before proceeding.">>>>])
        ELSE Wrote(
          [hookEventName |-> "PostToolUse",
           additionalContext |->
             <<<<"[PostToolUse Hook \\u2014 JSON Validation PASSED] ",
                 ToString(Len(watched)), " file(s) validated.">>>>])

-----------------------------------------------------------------------------
(* The handlers, each run on the files and the repository as they are, and *)
(* the environment that changes them between invocations.                  *)

Obj(items) == JsonFile(Dict(items))
CwdRepo == [name |-> "cwd", value |-> StrV("/repo")]

\* Standard input of any handler: empty, malformed, an object, an array,
\* null, an object whose cwd is no string.
HookInputs ==
    {NoFile, Malformed, Obj(<<CwdRepo>>), JsonFile(ListV(<<>>)),
     JsonFile(NullV), Obj(<<[name |-> "cwd", value |-> BoolV(TRUE)]>>)}
AgentInputs ==
    {Obj(<<CwdRepo, [name |-> "agent_type", value |-> StrV("Developer")]>>),
     Obj(<<CwdRepo, [name |-> "agent_type", value |-> StrV("tester")]>>),
     Obj(<<CwdRepo, [name |-> "agent_type", value |-> NullV]>>)}
EditedPaths ==
    {"/repo/src/a.py", "/repo/.github/settings.json",
     "/repo/.github/rules/gate-profiles.json",
     "/repo/.copilot/boards/feat-a/board.json"}
ToolInputs ==
    {Obj(<<CwdRepo, [name |-> "tool_name", value |-> StrV("create_file")],
           [name |-> "tool_input",
            value |-> Dict(<<[name |-> "filePath", value |-> StrV(p)]>>)]>>) :
       p \in EditedPaths}
    \cup {Obj(<<CwdRepo, [name |-> "tool_name", value |-> StrV("read_file")],
                [name |-> "tool_input", value |-> NullV]>>),
          Obj(<<CwdRepo, [name |-> "tool_name", value |-> StrV("create_file")],
                [name |-> "tool_input", value |-> NullV]>>)}
PolicyInputs ==
    {e \in Events : /\ e.tool = "create_file" /\ e.cwd = <<"/repo">>
                    /\ e.input = Input(SrcFile, NoneT, <<>>, <<>>)}

HookSettingsFiles ==
    {[json |-> "missing", keys |-> {}, user |-> None, format |-> None],
     [json |-> "malformed", keys |-> {}, user |-> None, format |-> None],
     [json |-> "array", keys |-> {}, user |-> None, format |-> None],
     SettingsObject({}, None, None),
     SettingsObject({"github", "branch"}, "alice", None)}

Gate(name, required) ==
    [name |-> name,
     value |-> Dict(<<[name |-> "required", value |-> BoolV(required)]>>)]
GateFiles ==
    {NoFile, Malformed, JsonFile(ListV(<<StrV("standard")>>)),
     Obj(<<[name |-> "profiles",
            value |-> Dict(<<[name |-> "standard",
                              value |-> Dict(<<Gate("analysis_gate", TRUE),
                                               Gate("test_gate", FALSE)>>)]>>)]>>),
     Obj(<<[name |-> "profiles", value |-> ListV(<<>>)]>>),
     Obj(<<[name |-> "profiles",
            value |-> Dict(<<[name |-> "standard", value |-> NullV]>>)]>>)}

\* A mutation of SessionStart: a missing settings file is created.
SessionStartCreatesSettings ==
    /\ pc = "idle"
    /\ \E e \in HookInputs :
         /\ event' = e
         /\ run' = SessionStartMain(e, dirs, vcs, settingsFile, gateFile,
                                    FileSystem(dirs, boardDirs))
    /\ pc' = "done"
    /\ settingsFile' = IF settingsFile.json = "missing"
                       THEN SettingsObject({}, None, None) ELSE settingsFile
    /\ UNCHANGED <<dirs, vcs, arg, ret>>
    /\ UNCHANGED <<tree, boardDirs, blocked, gateFile,
                   _entries, _history, calls>>

SessionStart ==
    /\ pc = "idle"
    /\ \E e \in HookInputs :
         /\ event' = e
         /\ run' = SessionStartMain(e, dirs, vcs, settingsFile, gateFile,
                                    FileSystem(dirs, boardDirs))
    /\ pc' = "done"
    /\ UNCHANGED <<dirs, vcs, settingsFile, arg, ret>>
    /\ UNCHANGED <<tree, boardDirs, blocked, gateFile,
                   _entries, _history, calls>>

SubagentStart ==
    /\ pc = "idle"
    /\ \E e \in HookInputs \cup AgentInputs :
         /\ event' = e
         /\ run' = SubagentStartMain(e, settingsFile,
                                     FileSystem(dirs, boardDirs))
    /\ pc' = "done"
    /\ UNCHANGED <<dirs, vcs, settingsFile, arg, ret>>
    /\ UNCHANGED <<tree, boardDirs, blocked, gateFile,
                   _entries, _history, calls>>

PreCompact ==
    /\ pc = "idle"
    /\ \E e \in HookInputs :
         /\ event' = e
         /\ run' = PreCompactMain(e, dirs, vcs, settingsFile,
                                  FileSystem(dirs, boardDirs))
    /\ pc' = "done"
    /\ UNCHANGED <<dirs, vcs, settingsFile, arg, ret>>
    /\ UNCHANGED <<tree, boardDirs, blocked, gateFile,
                   _entries, _history, calls>>

PostToolUse ==
    /\ pc = "idle"
    /\ \E e \in HookInputs \cup ToolInputs :
         /\ event' = e
         /\ run' = PostToolUseMain(e, settingsFile, gateFile,
                                   boardDirs["root"])
    /\ pc' = "done"
    /\ UNCHANGED <<dirs, vcs, settingsFile, arg, ret>>
    /\ UNCHANGED <<tree, boardDirs, blocked, gateFile,
                   _entries, _history, calls>>

WriteGateProfiles(g) ==
    /\ pc = "idle"
    /\ g # gateFile
    /\ gateFile' = g
    /\ UNCHANGED <<dirs, vcs, settingsFile, pc, event, run, arg, ret>>
    /\ UNCHANGED <<tree, boardDirs, blocked>>
    /\ UNCHANGED <<_entries, _history, calls>>

NextHooks ==
    \/ PreToolUse(PolicyInputs)
    \/ PostToolUse
    \/ SessionStart
    \/ SubagentStart
    \/ PreCompact
    \/ Stop
    \/ Exit
    \/ GitCheckout(RepoDir, "alice/feat")
    \/ \E k \in FailureKinds : GitFault(RepoDir, Failed(k))
    \/ \E n \in WtNames : WorktreeAdd(n, "alice/feat")
    \/ \E n \in WtNames : WorktreeRemove(n)
    \/ \E f \in HookSettingsFiles : WriteSettings(f)
    \/ \E g \in GateFiles : WriteGateProfiles(g)
    \/ \E l \in BoardListings("root") : WriteBoards("root", l)

SpecHooks == Init /\ [][NextHooks]_vars

-----------------------------------------------------------------------------
(* src/history.py: CalculationHistory *)

CalculationEntry(operation, left_operand, right_operand, result) ==
    [operation |-> operation, left_operand |-> left_operand,
     right_operand |-> right_operand, result |-> result]

\* A mutation of record: the entry is put in front.
RecordInFront(entries, operation, left_operand, right_operand, result) ==
    <<CalculationEntry(operation, left_operand, right_operand, result)>>
        \o entries

\* self._entries after record(...)
record(entries, operation, left_operand, right_operand, result) ==
    Append(entries,
           CalculationEntry(operation, left_operand, right_operand, result))

\* list(self._entries)
get_entries(entries) == entries

\* self._entries after clear()
clear(entries) == <<>>

Returns(method, value) ==
    [kind |-> "return", method |-> method, value |-> value]
Raises(method, error) == [kind |-> "raise", method |-> method, error |-> error]

\* Numbers are kept as fractions in lowest terms, so that 2 / 2 and 1 are
\* equal, as they are in Python.
Number(n) == [num |-> n, den |-> 1]

MaxCalls == 3
OperandPairs == {<<2, 3>>, <<3, 2>>, <<3, 0>>, <<0, 2>>}
RecordedOperations == {"add", "sqrt"}
RecordedResults == {Number(0), Number(5)}

Called(method, left_operand, right_operand, outcome) ==
    [method |-> method, left_operand |-> left_operand,
     right_operand |-> right_operand, outcome |-> outcome]

InitHistory ==
    /\ dirs = {}
    /\ vcs = [d \in AllDirs |-> Failed("missing")]
    /\ settingsFile = [json |-> "missing", keys |-> {}, user |-> None,
                       format |-> None]
    /\ pc = "idle"
    /\ event = NoEvent
    /\ run = NoRun
    /\ arg = <<>>
    /\ ret = Returns("__init__", None)
    /\ tree = [d \in AllDirs |-> CleanTree]
    /\ boardDirs = [c \in Containers |-> NoDir]
    /\ blocked = FALSE
    /\ gateFile = NoFile
    /\ _entries = <<>>
    /\ _history \in {None, "history"}
    /\ calls = <<>>

Elsewhere ==
    UNCHANGED <<dirs, vcs, settingsFile, pc, event, run, arg, tree, boardDirs,
                blocked, gateFile, _history>>

Record(operation, left_operand, right_operand, result) ==
    /\ Len(calls) < MaxCalls
    /\ _entries' = record(_entries, operation, left_operand, right_operand,
                          result)
    /\ ret' = Returns("record", None)
    /\ calls' = Append(calls, Called("record", left_operand, right_operand,
                                     Returns(operation, result)))
    /\ Elsewhere

GetEntries ==
    /\ ret' = Returns("get_entries", get_entries(_entries))
    /\ UNCHANGED <<_entries, calls>>
    /\ Elsewhere

Clear ==
    /\ Len(calls) < MaxCalls
    /\ _entries' = clear(_entries)
    /\ ret' = Returns("clear", None)
    /\ calls' = Append(calls, Called("clear", None, None,
                                     Returns("clear", None)))
    /\ Elsewhere

NextHistory ==
    \/ \E operation \in RecordedOperations, p \in OperandPairs,
          result \in RecordedResults :
         Record(operation, p[1], p[2], result)
    \/ GetEntries
    \/ Clear

SpecHistory == InitHistory /\ [][NextHistory]_vars

-----------------------------------------------------------------------------
(* src/calculator.py: Calculator *)

RECURSIVE Gcd(_, _)
Gcd(a, b) == IF b = 0 THEN a ELSE Gcd(b, a % b)

\* dividend / divisor (true division) of non-negative integers, divisor not
\* 0: the quotient.
TrueDiv(dividend, divisor) ==
    [num |-> dividend \div Gcd(dividend, divisor),
     den |-> divisor \div Gcd(dividend, divisor)]

\* What a method returns or raises, and self._history._entries after it.
Outcome(outcome, entries) == [outcome |-> outcome, entries |-> entries]

Finish(history, entries, method, left_operand, right_operand, result) ==
    Outcome(Returns(method, result),
            IF history # None
            THEN record(entries, method, left_operand, right_operand, result)
            ELSE entries)

add(history, entries, left_operand, right_operand) ==
    Finish(history, entries, "add", left_operand, right_operand,
           Number(left_operand + right_operand))

subtract(history, entries, left_operand, right_operand) ==
    Finish(history, entries, "subtract", left_operand, right_operand,
           Number(left_operand - right_operand))

multiply(history, entries, left_operand, right_operand) ==
    Finish(history, entries, "multiply", left_operand, right_operand,
           Number(left_operand * right_operand))

\* A mutation of divide: the call is recorded before the divisor is looked at.
DivideRecordsFirst(history, entries, dividend, divisor) ==
    IF divisor = 0
    THEN Outcome(Raises("divide", "ValueError"),
                 IF history # None
                 THEN record(entries, "divide", dividend, divisor, Number(0))
                 ELSE entries)
    ELSE Finish(history, entries, "divide", dividend, divisor,
                TrueDiv(dividend, divisor))

divide(history, entries, dividend, divisor) ==
    IF divisor = 0
    THEN Outcome(Raises("divide", "ValueError"), entries)
    ELSE Finish(history, entries, "divide", dividend, divisor,
                TrueDiv(dividend, divisor))

Methods == {"add", "subtract", "multiply", "divide"}

Apply(method, history, entries, left_operand, right_operand) ==
    CASE method = "add" -> add(history, entries, left_operand, right_operand)
      [] method = "subtract" ->
             subtract(history, entries, left_operand, right_operand)
      [] method = "multiply" ->
             multiply(history, entries, left_operand, right_operand)
      [] method = "divide" ->
             divide(history, entries, left_operand, right_operand)

Calculate(method, left_operand, right_operand) ==
    /\ Len(calls) < MaxCalls
    /\ LET done == Apply(method, _history, _entries, left_operand,
                         right_operand)
       IN /\ _entries' = done.entries
          /\ ret' = done.outcome
          /\ calls' = Append(calls, Called(method, left_operand,
                                           right_operand, done.outcome))
    /\ Elsewhere

Add == \E p \in OperandPairs : Calculate("add", p[1], p[2])
Subtract == \E p \in OperandPairs : Calculate("subtract", p[1], p[2])
Multiply == \E p \in OperandPairs : Calculate("multiply", p[1], p[2])
Divide == \E p \in OperandPairs : Calculate("divide", p[1], p[2])

NextCalculator ==
    \/ Add
    \/ Subtract
    \/ Multiply
    \/ Divide
    \/ GetEntries

SpecCalculator == InitHistory /\ [][NextCalculator]_vars

-----------------------------------------------------------------------------
(* tools/hooks/hook_utils.py: the board scan that knows no worktrees, and  *)
(* both scans called on one file system                                    *)

\* The loop of the legacy find_active_boards. [raise, boards]
RECURSIVE LegacyScanEntries(_, _, _)
LegacyScanEntries(entries, i, sep) ==
    IF i > Len(entries) THEN [raise |-> FALSE, boards |-> <<>>]
    ELSE LET board_dir == entries[i]
             rest == LegacyScanEntries(entries, i + 1, sep)
         IN CASE board_dir.kind = "file" \/ board_dir.name \in UnderscoreNames
                   -> rest
              [] board_dir.kind \in {"empty", "unreadable", "malformed"} -> rest
              [] board_dir.kind \in {"notutf8", "nonobject"} ->
                   [raise |-> TRUE, boards |-> <<>>]
              [] OTHER ->
                   IF rest.raise THEN rest
                   ELSE [raise |-> FALSE,
                         boards |->
                           <<[data |-> board_dir.data,
                              _board_path |->
                                PathStr(<<".copilot", "boards", board_dir.name,
                                          "board.json">>, sep)]>>
                             \o rest.boards]

LegacyFindActiveBoards(fs) ==
    IF ~fs.boards.isdir THEN [raise |-> FALSE, boards |-> <<>>]
    ELSE LegacyScanEntries(fs.boards.entries, 1, fs.sep)

CallBothScans ==
    /\ pc = "call"
    /\ ret' = [current |-> find_active_boards(arg),
               legacy |-> LegacyFindActiveBoards(arg)]
    /\ pc' = "returned"
    /\ UNCHANGED <<dirs, vcs, settingsFile, event, run, arg>>
    /\ UNCHANGED <<tree, boardDirs, blocked, gateFile,
                   _entries, _history, calls>>

SpecLegacy == InitScan /\ [][CallBothScans]_vars

-----------------------------------------------------------------------------
(* hook_utils.py: the board scan, one file-system call at a time, while    *)
(* the agents that own the boards rewrite and delete them.  pc is the call *)
(* the scan makes next; run holds its locals: the container being scanned  *)
(* (where), the entries iterdir listed and not yet visited (names), the    *)
(* worktrees listed and not yet visited (wts) and the boards read so far.  *)

RaceBoard(name, kind, flow_state) ==
    [name |-> name, kind |-> kind, data |-> Board(name, flow_state, AllPresent)]

\* The states a board.json is seen in while it is rewritten: truncated or
\* written in part ("malformed"), written up to the middle of a multi-byte
\* character ("notutf8"), written in full ("object").
WrittenKinds == {"malformed", "notutf8", "object"}
RaceFlowStates == {"completed"}

ScanLocals(where, names, wts, boards) ==
    [where |-> where, names |-> names, wts |-> wts, boards |-> boards]

BoardsDirOf(where) == boardDirs[where]
Names(entries) == [i \in DOMAIN entries |-> entries[i].name]
\* The entries of the directory that bear the name, as they are now.
Named(where, name) ==
    {e \in {BoardsDirOf(where).entries[i] :
              i \in DOMAIN BoardsDirOf(where).entries} : e.name = name}

InitRace ==
    /\ dirs = WtNames
    /\ vcs = [d \in AllDirs |-> Failed("missing")]
    /\ settingsFile = [json |-> "missing", keys |-> {}, user |-> None,
                       format |-> None]
    /\ pc = "idle"
    /\ event = NoEvent
    /\ run = ScanLocals("root", <<>>, <<>>, <<>>)
    /\ arg = <<>>
    /\ ret = NoneT
    /\ tree = [d \in AllDirs |-> CleanTree]
    /\ boardDirs \in
         [Containers ->
            {Dir(<<RaceBoard("feat-a", "object", "completed")>>),
             Dir(<<RaceBoard("_archived", "object", "completed"),
                   RaceBoard("feat-a", "object", "completed")>>)}]
    /\ blocked = FALSE
    /\ gateFile = NoFile
    /\ _entries = <<>>
    /\ _history = None
    /\ calls = <<>>

ScanFrame ==
    UNCHANGED <<dirs, vcs, settingsFile, event, arg, ret, tree, boardDirs,
                blocked, gateFile, _entries, _history, calls>>

\* find_active_boards(repo_root) is called.
ScanStart ==
    /\ pc = "idle"
    /\ pc' = "boards_dir.is_dir"
    /\ run' = ScanLocals("root", <<>>, <<>>, <<>>)
    /\ ScanFrame

\* _scan_boards_dir returns: after the repo root the worktree container is
\* listed, after a worktree the next one is visited.
Return(locals) ==
    IF locals.where = "root"
    THEN /\ pc' = "worktrees_dir.iterdir"
         /\ run' = locals
    ELSE /\ pc' = IF locals.wts = <<>> THEN "returned" ELSE "wt_dir.is_dir"
         /\ run' = locals

\* if not boards_dir.is_dir(): return boards
BoardsDirIsDir ==
    /\ pc = "boards_dir.is_dir"
    /\ IF BoardsDirOf(run.where).isdir
       THEN pc' = "boards_dir.iterdir" /\ run' = run
       ELSE Return(run)
    /\ ScanFrame

\* for board_dir in boards_dir.iterdir(): FileNotFoundError when the
\* directory is gone; the for statement is not inside the try.
BoardsDirIterDir ==
    /\ pc = "boards_dir.iterdir"
    /\ IF ~BoardsDirOf(run.where).isdir
       THEN pc' = "raised" /\ run' = run
       ELSE LET names == Names(BoardsDirOf(run.where).entries) IN
            IF names = <<>> THEN Return(run)
            ELSE /\ pc' = "board_dir.is_dir"
                 /\ run' = [run EXCEPT !.names = names]
    /\ ScanFrame

\* The loop goes on with the next entry listed, or ends.
Continue(locals) ==
    LET rest == [locals EXCEPT !.names = Tail(locals.names)] IN
    IF rest.names = <<>> THEN Return(rest)
    ELSE pc' = "board_dir.is_dir" /\ run' = rest

\* if not board_dir.is_dir() or board_dir.name.startswith("_"): continue
BoardDirIsDir ==
    /\ pc = "board_dir.is_dir"
    /\ LET found == Named(run.where, run.names[1]) IN
       IF \/ found = {}
          \/ \E e \in found : e.kind = "file"
          \/ run.names[1] \in UnderscoreNames
       THEN Continue(run)
       ELSE pc' = "board_file.is_file" /\ run' = run
    /\ ScanFrame

\* if board_file.is_file():
BoardFileIsFile ==
    /\ pc = "board_file.is_file"
    /\ LET found == Named(run.where, run.names[1]) IN
       IF found = {} \/ \E e \in found : e.kind = "empty"
       THEN Continue(run)
       ELSE pc' = "read_text" /\ run' = run
    /\ ScanFrame

\* data = json.loads(board_file.read_text(encoding="utf-8")) and the two
\* statements after it, inside try ... except (JSONDecodeError, OSError).
ReadText ==
    /\ pc = "read_text"
    /\ LET found == Named(run.where, run.names[1]) IN
       IF found = {}
          \/ \E e \in found : e.kind \in {"empty", "unreadable", "malformed"}
       THEN Continue(run)
       ELSE IF \E e \in found : e.kind \in {"notutf8", "nonobject"}
       THEN pc' = "raised" /\ run' = run
       ELSE LET e == CHOOSE e \in found : TRUE
                rel == IF run.where = "root" THEN <<".copilot", "boards">>
                       ELSE RelBoardsDir(run.where, TRUE)
            IN Continue([run EXCEPT !.boards = Append(@,
                 [data |-> e.data,
                  _board_path |->
                    ReplaceBackslash(PathStr(rel \o <<e.name, "board.json">>,
                                             "/"))])])
    /\ ScanFrame

\* for wt_dir in worktrees_dir.iterdir(): the worktrees there are now.
WorktreesDirIterDir ==
    /\ pc = "worktrees_dir.iterdir"
    /\ LET wts == IterDir(dirs) IN
       /\ pc' = IF wts = <<>> THEN "returned" ELSE "wt_dir.is_dir"
       /\ run' = [run EXCEPT !.wts = wts]
    /\ ScanFrame

\* if not wt_dir.is_dir(): continue; otherwise its boards are scanned.
WtDirIsDir ==
    /\ pc = "wt_dir.is_dir"
    /\ LET rest == [run EXCEPT !.wts = Tail(run.wts)] IN
       IF run.wts[1] \in dirs
       THEN /\ pc' = "boards_dir.is_dir"
            /\ run' = [rest EXCEPT !.where = run.wts[1]]
       ELSE /\ pc' = IF rest.wts = <<>> THEN "returned" ELSE "wt_dir.is_dir"
            /\ run' = rest
    /\ ScanFrame

\* An owner acts between two steps of a scan, and on the files only.
Meanwhile ==
    /\ pc \notin {"idle", "returned", "raised"}
    /\ UNCHANGED <<vcs, settingsFile, pc, event, run, arg, ret, tree, blocked,
                   gateFile, _entries, _history, calls>>

\* An agent rewrites a board.json: it is truncated, then written.
RewriteBoard(c, i, kind, flow_state) ==
    /\ BoardsDirOf(c).isdir
    /\ i \in DOMAIN BoardsDirOf(c).entries
    /\ BoardsDirOf(c).entries[i].kind \in WrittenKinds
    /\ LET name == BoardsDirOf(c).entries[i].name IN
       /\ RaceBoard(name, kind, flow_state) # BoardsDirOf(c).entries[i]
       /\ boardDirs' = [boardDirs EXCEPT
                          ![c].entries[i] = RaceBoard(name, kind, flow_state)]
    /\ UNCHANGED dirs
    /\ Meanwhile

\* An agent deletes a board.json.
DeleteBoardFile(c, i) ==
    /\ BoardsDirOf(c).isdir
    /\ i \in DOMAIN BoardsDirOf(c).entries
    /\ BoardsDirOf(c).entries[i].kind \in WrittenKinds
    /\ boardDirs' = [boardDirs EXCEPT ![c].entries[i].kind = "empty"]
    /\ UNCHANGED dirs
    /\ Meanwhile

\* An agent deletes a board directory.
DeleteBoardDir(c, i) ==
    /\ BoardsDirOf(c).isdir
    /\ i \in DOMAIN BoardsDirOf(c).entries
    /\ boardDirs' =
         [boardDirs EXCEPT
            ![c].entries = SubSeq(@, 1, i - 1) \o SubSeq(@, i + 1, Len(@))]
    /\ UNCHANGED dirs
    /\ Meanwhile

\* An agent deletes .copilot/boards of the repo root.
DeleteBoardsDir ==
    /\ BoardsDirOf("root").isdir
    /\ boardDirs' = [boardDirs EXCEPT !["root"] = NoDir]
    /\ UNCHANGED dirs
    /\ Meanwhile

\* An agent deletes a worktree directory, its boards with it.
DeleteWorktree(n) ==
    /\ n \in dirs
    /\ dirs' = dirs \ {n}
    /\ boardDirs' = [boardDirs EXCEPT ![n] = NoDir]
    /\ Meanwhile

MaxEntries == 2

NextRace ==
    \/ ScanStart
    \/ BoardsDirIsDir
    \/ BoardsDirIterDir
    \/ BoardDirIsDir
    \/ BoardFileIsFile
    \/ ReadText
    \/ WorktreesDirIterDir
    \/ WtDirIsDir
    \/ \E c \in Containers, i \in 1..MaxEntries, kind \in WrittenKinds,
          flow_state \in RaceFlowStates : RewriteBoard(c, i, kind, flow_state)
    \/ \E c \in Containers, i \in 1..MaxEntries : DeleteBoardFile(c, i)
    \/ \E c \in Containers, i \in 1..MaxEntries : DeleteBoardDir(c, i)
    \/ DeleteBoardsDir
    \/ \E n \in WtNames : DeleteWorktree(n)

SpecRace == InitRace /\ [][NextRace]_vars

-----------------------------------------------------------------------------
(* The policy gate while the branch queries fail: events at the repo root  *)
(* and in a worktree, commands of up to MaxSegs sub-commands               *)

UnknownSegs ==
    {SegCommit, SegPushMain, SegPushMaster, SegRmRf, SegNewBranch,
     SegEchoMainline}
UnknownCommands ==
    CommandsOf(UnknownSegs, MaxSegs)
      \cup {Semi(SegCdWt, SegCommit), Semi(SegCdWt, SegPushMain)}
UnknownEvents ==
    [tool : {"run_in_terminal"}, cwd : {<<"/repo">>},
     input : {Input(NoneT, NoneT, <<>>, c) : c \in UnknownCommands}]
      \cup [tool : FILE_EDIT_TOOLS \cup {"read_file"}, cwd : {<<"/repo">>},
            input : {Input(SrcFile, NoneT, <<>>, <<>>),
                     Input(WtFile, NoneT, <<>>, <<>>)}]
UnknownSettings ==
    {f \in PolicySettings : f.json = "missing" \/ f.user = "alice"}

NextUnknown ==
    \/ PreToolUse(UnknownEvents)
    \/ Exit
    \/ \E d \in AllDirs : GitCheckout(d, "main")
    \/ \E d \in AllDirs, k \in FailureKinds : GitFault(d, Failed(k))
    \/ \E n \in WtNames : WorktreeAdd(n, "master")
    \/ \E n \in WtNames : WorktreeRemove(n)
    \/ \E f \in UnknownSettings : WriteSettings(f)

SpecUnknown == Init /\ [][NextUnknown]_vars

-----------------------------------------------------------------------------
(* Properties *)

Done == pc = "done"
Command == event.input.command
Settings == LoadSettings(settingsFile)
Output == run.stdout[1]
CheckOrder == <<"protection", "terminal", "naming">>

\* C1: the checks run in the order protection, terminal, naming; the object
\* written is the result of the first check with an opinion and no later
\* check is evaluated; exactly one object is written; it is the empty object
\* when no check has an opinion; a commit with a mis-prefixed branch creation
\* on a protected branch is denied, not asked.
C1_FirstOpinionWins ==
    Done =>
      LET n == Len(run.checks)
          last == run.checks[n][2]
      IN /\ run.exit = "ok"
         /\ Len(run.stdout) = 1
         /\ n \in 1..3
         /\ \A i \in 1..n : run.checks[i][1] = CheckOrder[i]
         /\ \A i \in 1..(n - 1) : run.checks[i][2].decision = "none"
         /\ IF last.decision # "none"
            THEN Output = last /\ Output.decision \in {"deny", "ask"}
            ELSE n = 3 /\ Output = EmptyOutput
         /\ (/\ event.tool = "run_in_terminal"
             /\ run.branch \in {"main", "master"}
             /\ Search(ReGitCommit, Command).ok
             /\ CheckBranchNaming(event.tool, Command, Settings).decision = "ask")
              => Output.decision = "deny"

C1_Witness ==
    /\ Done
    /\ event.tool = "run_in_terminal"
    /\ run.branch = "main"
    /\ Command = AndAnd(SegCommit, SegNewBranch)
    /\ CheckBranchNaming(event.tool, Command, Settings).decision = "ask"
    /\ Output.decision = "deny"
    /\ Len(run.checks) = 2

\* C2: the protected-branch guard denies exactly when the branch is main or
\* master and the tool is one of the five file-mutation tools; the reason
\* names the branch; otherwise the guard has no opinion.
C2_ProtectedBranchGuard ==
    Done =>
      LET r == run.checks[1][2] IN
      /\ run.checks[1][1] = "protection"
      /\ r.decision = "deny" <=>
           /\ run.branch \in {"main", "master"}
           /\ event.tool \in {"create_file", "editFiles", "replace_string_in_file",
                              "multi_replace_string_in_file", "edit_notebook_file"}
      /\ r.decision = "deny" => r.msg = "edits-on-branch" /\ r.branch = run.branch
      /\ r.decision # "deny" => r = NoOpinion

C2_Witness ==
    /\ Done
    /\ event.tool = "edit_notebook_file"
    /\ run.branch = "master"
    /\ Output.decision = "deny"
    /\ Output.branch = "master"

Terminal == event.tool = "run_in_terminal"
Protected == run.branch \in {"main", "master"}
HasCommit == Search(ReGitCommit, Command).ok
\* One of the destructive patterns of the fixed set matches the command.
HasDestructive ==
    \/ Search(ReRmRf, Command).ok
    \/ Search(ReRemoveItem, Command).ok
    \/ Search(ReDropTable, Command).ok
    \/ Search(ReDropDatabase, Command).ok
\* git push ... main or git push ... master
PushNamesProtected ==
    \/ Search(<<ILit("git"), Ws, ILit("push"), Ws, DotStar, IWord("main")>>,
              Command).ok
    \/ Search(<<ILit("git"), Ws, ILit("push"), Ws, DotStar, IWord("master")>>,
              Command).ok

\* C3: a shell command that contains rm -rf /... is denied, whatever the
\* resolved branch and whatever else the command contains.
C3_RmRfAlwaysDenied ==
    (Done /\ Terminal /\ Search(ReRmRf, Command).ok) => Output.decision = "deny"

\* C4: a shell command not denied by the commit rule that matches one of the
\* destructive patterns is denied by the unsafe-command guard, and the reason
\* echoes the first 80 characters of the command.
C4_DestructiveDenied ==
    (Done /\ Terminal /\ ~(Protected /\ HasCommit) /\ HasDestructive) =>
      LET r == run.checks[2][2] IN
      /\ r.decision = "deny"
      /\ r.msg = "destructive"
      /\ r.echo = Truncate(Command, 80).atoms
      /\ r.cut = Truncate(Command, 80).cut
      /\ Width(r.echo) + r.cut <= 80

C6_PushToProtected ==
    (/\ Done /\ Terminal
     /\ PushNamesProtected
     /\ ~HasCommit /\ ~HasDestructive
     /\ ~Search(ReBranchCreate, Command).ok) =>
      LET r == run.checks[2][2] IN
      IF Protected THEN r.decision = "deny" ELSE r = NoOpinion

C9_HighestPriorityIdiom ==
    pc = "returned" =>
      LET cmd == CommandOf(arg)
          n == Len(arg.segs)
          present == {k \in 1..6 : \E i \in 1..Len(cmd) :
                        MatchAt(_TERMINAL_CWD_PATTERNS[k], 1, cmd, i, <<>>).ok}
          best == CHOOSE r \in {arg.segs[j].rank : j \in 1..n} :
                    \A j \in 1..n : r <= arg.segs[j].rank
          first == CHOOSE j \in 1..n :
                     /\ arg.segs[j].rank = best
                     /\ \A j2 \in 1..(j - 1) : arg.segs[j2].rank # best
      IN /\ ret = IF best = 7 THEN NoneT ELSE arg.segs[first].target
         /\ ret = NoneT <=> present = {}
         /\ present # {} => (best \in present /\ \A k \in present : best <= k)
         /\ cmd = <<"cd", " ", "/worktrees/foo", " ", "&&", " ",
                    "git", " ", "commit", " ", "-m", " ", "x">>
              => ret = <<"/worktrees/foo">>

\* A quoted cd that follows an unquoted Push-Location wins over it.
C9_Witness ==
    /\ pc = "returned"
    /\ Len(arg.segs) = 2
    /\ arg.segs[1].rank = 4
    /\ arg.segs[2].rank = 1
    /\ ret = arg.segs[2].target
    /\ ret # arg.segs[1].target

\* The branch a query reports, None when it yields nothing (failure or
\* empty output).
Reported(o) ==
    IF o.kind = "ok" /\ Strip(o.stdout) # <<>> THEN Strip(o.stdout)[1] ELSE None
\* The worktree the effective location of the invocation lies in, or NoneT.
LocationWorktree == ResolveWorktreeRoot(run.file_path, RepoDir, dirs)
\* The explicit paths of the arguments.
TopLevelPath == OrT(event.input.filePath, event.input.file_path)
NestedPath ==
    IF event.input.replacements # <<>> /\ event.input.replacements[1].dict
    THEN event.input.replacements[1].filePath ELSE NoneT
IdiomDirectory == ExtractTerminalEffectiveCwd(Command)
\* p lies in an existing worktree whose query reports a non-protected branch
\* while the query at the repo root reports main.
InFeatureWorktree(p) ==
    LET wt == ResolveWorktreeRoot(p, RepoDir, dirs) IN
    /\ wt # NoneT
    /\ Reported(vcs[wt]) \notin {None, "main", "master"}
    /\ Reported(vcs[RepoDir]) = "main"
BranchAtRoot(b) ==
    IF Reported(vcs[RepoDir]) # None THEN b = Reported(vcs[RepoDir])
    ELSE b \in {None, ""}

C10_BranchFallback ==
    Done =>
      LET inWt == IF LocationWorktree = NoneT THEN None
                  ELSE Reported(vcs[LocationWorktree])
      IN /\ run.exit = "ok"
         /\ run.branch # Raise
         /\ IF inWt # None THEN run.branch = inWt ELSE BranchAtRoot(run.branch)

\* The query in the worktree timed out and the branch is the repo root's.
C10_Witness ==
    /\ Done
    /\ LocationWorktree = WtDir("foo")
    /\ vcs[WtDir("foo")].kind = "timeout"
    /\ vcs[RepoDir] = Ok("master")
    /\ run.branch = "master"

\* The worktree container of the repository.
Container == RepoDir \o <<".worktrees">>

\* C11: resolve_worktree_root returns repoRoot/.worktrees/<name> exactly when
\* the resolved path lies under that directory and the directory exists, and
\* nothing for an absent path, a path outside the container, the container
\* itself, and a path under a name whose directory does not exist.
C11_ResolveWorktree ==
    pc = "returned" =>
      LET p == arg.file_path
          abs == PathParts(p)
          Under(n) == TruthyT(p) /\ IsPrefix(Container \o <<n>>, abs)
      IN /\ \A n \in ResolveNames :
              ret = Container \o <<n>> <=> (Under(n) /\ n \in dirs)
         /\ ret = NoneT <=> ~ \E n \in dirs : Under(n)
         /\ ~TruthyT(p) => ret = NoneT
         /\ ~IsPrefix(Container, abs) => ret = NoneT
         /\ abs = Container => ret = NoneT
         /\ p \in {<<"/repo/.worktrees/foo/..">>,
                   <<"/repo/.worktrees/foo/../../src/a.py">>,
                   <<"/repo/.worktrees2/foo/a.py">>,
                   <<"/repo/.worktrees/README.md">>} => ret = NoneT
         /\ p \in {<<"/repo/src/../.worktrees/./foo/a.py">>,
                   <<"/repo/.worktrees/foo">>} =>
              ret = IF "foo" \in dirs THEN Container \o <<"foo">> ELSE NoneT

C11_Witness ==
    /\ pc = "returned"
    /\ arg.file_path = <<"/repo/src/../.worktrees/./foo/a.py">>
    /\ dirs = {"foo"}
    /\ ret = <<"repo", ".worktrees", "foo">>

\* The scan of arg has returned, with a result or with an exception.
Scanned == pc = "returned" /\ arg \in ScanArgs
Elems(l) == {l[i] : i \in DOMAIN l}
\* The board directories of a listing whose board.json holds a JSON object.
ObjectDirs(listing) ==
    {e \in Elems(listing.entries) : listing.isdir /\ e.kind = "object"}
WellFormed(listing) == {e \in ObjectDirs(listing) : e.name \notin UnderscoreNames}
\* The repo-root-relative paths, '/'-separated, of the well-formed boards
\* under the repo root and under the worktrees.
RootPaths ==
    {<<".copilot", "/", "boards", "/", e.name, "/", "board.json">> :
       e \in WellFormed(arg.boards)}
WorktreePathsOf(w) ==
    {<<".worktrees", "/", w.name, "/", ".copilot", "/", "boards", "/", e.name,
       "/", "board.json">> : e \in WellFormed(w.data)}
WorktreePaths ==
    UNION {WorktreePathsOf(w) :
             w \in {w \in Elems(arg.worktrees.entries) :
                      arg.worktrees.isdir /\ w.kind = "dir"}}
ReturnedPaths == {ret.boards[i]._board_path : i \in DOMAIN ret.boards}

\* C12: a scan that returns lists every board of the repo root's container
\* before any board of a worktree, and each board carries a path relative
\* to the repo root, '/'-separated, that no other board of the result has.
C12_ScanOrderAndProvenance ==
    (Scanned /\ ~ret.raise) =>
      LET n == Len(ret.boards)
          path(i) == ret.boards[i]._board_path
      IN /\ \A i \in 1..n : path(i) \in RootPaths \cup WorktreePaths
         /\ \A i, j \in 1..n :
              (i < j /\ path(j) \in RootPaths) => path(i) \in RootPaths
         /\ \A i, j \in 1..n : i # j => path(i) # path(j)
         /\ \A i \in 1..n : \A k \in DOMAIN path(i) : path(i)[k] # "\\"
         /\ RootPaths \subseteq ReturnedPaths

\* Two worktrees hold a board directory of the same name, on a platform
\* whose separator is the backslash.
C12_Witness ==
    /\ Scanned
    /\ ~ret.raise
    /\ arg.sep = "\\"
    /\ Len(ret.boards) = 3
    /\ ret.boards[1]._board_path \in RootPaths
    /\ ret.boards[2]._board_path \in WorktreePaths
    /\ ret.boards[3]._board_path \in WorktreePaths
    /\ ret.boards[2].data = ret.boards[3].data

\* C13: a scan that returns holds no board whose path has a directory
\* component starting with '_', be it a board directory or a worktree.
C13_NoUnderscoreComponent ==
    (Scanned /\ ~ret.raise) =>
      \A i \in DOMAIN ret.boards :
        \A k \in DOMAIN ret.boards[i]._board_path :
          ret.boards[i]._board_path[k] \notin UnderscoreNames

\* C14: whatever the board files hold, the scan does not raise and returns
\* every well-formed board of every container.
C14_BadBoardSkipped ==
    Scanned =>
      /\ ~ret.raise
      /\ ReturnedPaths = RootPaths \cup WorktreePaths

\* The artifacts the table requires for the board's state and the board
\* has not (no key, or null).
Lacking(data) ==
    LET st == IF data.flow_state = None THEN "initialized" ELSE data.flow_state
        required == Elems(expected_artifacts(st))
    IN {a \in required : data.artifacts[a] # "present"}
IsMissingIssue(issue) == issue.kind = "missing"
LacksArtifacts(board) == Lacking(board.data) # {}

Stopped == pc = "done" /\ event \in StopEvents
Returned == Stopped /\ ~event.stop_hook_active /\ run.exit = "ok"
Decision == run.stdout[1]
\* The working tree of d has changes.
TreeDirty(d) == StripText(tree[d].porcelain.stdout) # <<>>
RootBranch == Reported(vcs[RepoDir])
\* The contents of the board files of container c that hold a JSON object.
ObjectsOf(c) ==
    LET l == boardDirs[c] IN
    IF l.isdir /\ l.entries # <<>> /\ l.entries[1].kind = "object"
    THEN <<l.entries[1].data>> ELSE <<>>
\* The boards of the repository, those of the repo root first.
StateBoards ==
    ObjectsOf("root") \o (IF "foo" \in dirs THEN ObjectsOf("foo") ELSE <<>>)
FlowStateOf(data) ==
    IF data.flow_state = None THEN "initialized" ELSE data.flow_state
MidWorkflow(data) == FlowStateOf(data) \notin {"initialized", "completed"}
LacksAny(data) == Lacking(data) # {}
IsMidIssue(issue) == issue.kind = "mid"
IsRootIssue(issue) == issue.kind = "root"
IsWorktreeIssue(issue) == issue.kind = "worktree"
IsBoardIssue(issue) == issue.kind \in {"missing", "mid"}
\* The issues there are to find: changes at the repo root off a protected
\* branch, changes in a worktree whose branch is known, boards that lack
\* artifacts or are mid-workflow.
RootIssueCount ==
    IF RootBranch \notin {"main", "master"} /\ TreeDirty(RepoDir) THEN 1 ELSE 0
WorktreeIssueCount ==
    Cardinality({n \in dirs : Reported(vcs[WtDir(n)]) # None
                              /\ TreeDirty(WtDir(n))})
BoardIssueCount ==
    Len(SelectSeq(StateBoards, LacksAny)) + Len(SelectSeq(StateBoards, MidWorkflow))

\* C15: a stop event whose stop_hook_active is true is answered with {},
\* whatever the trees and the boards hold.
C15_ContinuationAllowed ==
    (Stopped /\ event.stop_hook_active) =>
      /\ run.exit = "ok"
      /\ run.stdout = <<EmptyDecision>>

\* Changes at the root and in the worktree, a board that lacks artifacts and
\* a board file that is not an object.
C15_Witness ==
    /\ Stopped
    /\ event.stop_hook_active
    /\ RootBranch = "alice/feat"
    /\ TreeDirty(RepoDir)
    /\ "foo" \in dirs
    /\ TreeDirty(WtDir("foo"))
    /\ Len(ObjectsOf("root")) = 1
    /\ LacksAny(ObjectsOf("root")[1])
    /\ boardDirs["foo"] \in BoardListings("foo")
    /\ boardDirs["foo"] # NoDir
    /\ ObjectsOf("foo") = <<>>
    /\ run.stdout = <<EmptyDecision>>

\* C16: without the flag, a check that returns writes a block exactly when
\* there is an issue to find, its reason lists every issue, those of the
\* repo root first, then those of the worktrees, then those of the boards;
\* without an issue it writes {}.
C16_BlockIffIssues ==
    Returned =>
      LET total == RootIssueCount + WorktreeIssueCount + BoardIssueCount
          reason == Decision.reason
      IN /\ Decision.decision = "block" <=> total > 0
         /\ total = 0 => run.stdout = <<EmptyDecision>>
         /\ Len(reason) = total
         /\ \A i \in DOMAIN reason :
              /\ i <= RootIssueCount => IsRootIssue(reason[i])
              /\ (RootIssueCount < i /\ i <= RootIssueCount + WorktreeIssueCount)
                   => IsWorktreeIssue(reason[i])
              /\ i > RootIssueCount + WorktreeIssueCount
                   => IsBoardIssue(reason[i])
         /\ reason = run.issues

C16_Witness ==
    /\ Returned
    /\ RootIssueCount = 1
    /\ WorktreeIssueCount = 1
    /\ BoardIssueCount = 3
    /\ Decision.decision = "block"
    /\ Len(Decision.reason) = 5
    /\ Decision.reason[1].file_count = 2
    /\ Decision.reason[2].name = "foo"
    /\ Decision.reason[3].kind = "missing"

\* C17: when the host sets stop_hook_active exactly on the stop event that
\* follows a block, a stop event that follows a block is not blocked.
C17_NoConsecutiveBlocks ==
    (Stopped /\ event.stop_hook_active = blocked /\ blocked) =>
      /\ run.exit = "ok"
      /\ Decision.decision # "block"

\* The previous stop was blocked, the issues persist, the stop is allowed.
C17_Witness ==
    /\ Stopped
    /\ blocked
    /\ event.stop_hook_active
    /\ RootIssueCount + WorktreeIssueCount = 0
    /\ BoardIssueCount > 0
    /\ run.stdout = <<EmptyDecision>>

\* C19: the mid-workflow issues are, in the order of the boards, one per
\* board whose flow_state (initialized when it has none) is neither
\* initialized nor completed, whether or not it lacks artifacts; when there
\* is such a board the stop is blocked.
C19_MidWorkflow ==
    Returned =>
      LET issues == SelectSeq(run.issues, IsMidIssue)
          mid == SelectSeq(StateBoards, MidWorkflow)
      IN /\ Len(issues) = Len(mid)
         /\ \A i \in DOMAIN issues : issues[i].flow_state = mid[i].flow_state
         /\ mid # <<>> => Decision.decision = "block"

\* A board in state testing that has its implementation and a board in
\* state reviewing that lacks test_results, clean trees.
C19_Witness ==
    /\ Returned
    /\ ~TreeDirty(RepoDir)
    /\ "foo" \in dirs
    /\ ~TreeDirty(WtDir("foo"))
    /\ Len(StateBoards) = 2
    /\ StateBoards[1].flow_state = "testing"
    /\ ~LacksAny(StateBoards[1])
    /\ StateBoards[2].flow_state = "reviewing"
    /\ LacksAny(StateBoards[2])
    /\ Len(SelectSeq(run.issues, IsMidIssue)) = 2
    /\ Decision.decision = "block"

\* C20: without the flag, a check that returns holds one issue for the repo
\* root exactly when its tree has changes, and one issue for each worktree
\* exactly when its tree has changes, with the status lines and their
\* count, whatever the branches are.
C20_EveryTreeExamined ==
    Returned =>
      LET root == SelectSeq(run.issues, IsRootIssue)
          wts == SelectSeq(run.issues, IsWorktreeIssue)
      IN /\ Len(root) = IF TreeDirty(RepoDir) THEN 1 ELSE 0
         /\ \A n \in dirs :
              TreeDirty(WtDir(n)) <=> \E i \in DOMAIN wts : wts[i].name = n
         /\ Len(wts) <= Cardinality(dirs)

-----------------------------------------------------------------------------
(* Summaries *)

Summarised == pc = "returned" /\ arg \in SummaryArgs
BoardLines == SelectSeq(ret, LAMBDA l : l[1] = "- Feature: ")
GatesOf(board) == Items(board.gates)

\* The status a gate records, not_reached when it records none.
RecordedStatus(gate_data) ==
    IF gate_data.isdict /\ gate_data.status # Absent THEN gate_data.status
    ELSE "not_reached"
Differing(board) ==
    {i \in DOMAIN GatesOf(board) :
       RecordedStatus(GatesOf(board)[i].data) # "not_reached"}

\* The gate digest of a line: the atoms between "Gates: [" and "] | Path: ".
Digest(line, board) ==
    SubSeq(line, 12, Len(line) - 1 - Len(board._board_path))
DigestOf(board) ==
    IF Differing(board) = {} THEN <<"all not_reached">>
    ELSE Join([k \in 1..Cardinality(Differing(board)) |->
                 LET i == CHOOSE i \in Differing(board) :
                            Cardinality({j \in Differing(board) : j < i}) = k - 1
                 IN  <<GatesOf(board)[i].name, "=",
                       Fmt(GatesOf(board)[i].data.status)>>], ", ")

\* C21: the session-start summary has one line per scanned board, and the
\* gate digest of that line lists exactly the gates whose status differs
\* from not_reached, a gate recording no status counting as not_reached; it
\* reads "all not_reached" when no gate differs.
C21_GateDigest ==
    Summarised =>
      /\ Len(BoardLines) = Len(arg)
      /\ \A i \in DOMAIN arg : Digest(BoardLines[i], arg[i]) = DigestOf(arg[i])

AgentReturned == pc = "returned" /\ arg \in AgentArgs
ExtraParts == SelectSeq(ret, LAMBDA p : p.text[1] = "artifacts")
Roles == {"manager", "architect", "developer", "reviewer", "writer"}
NonCore(agent_type) ==
    SelectSeq(AGENT_BOARD_FIELDS(agent_type), LAMBDA f : f \notin CoreFields)

\* The value a board holds at artifacts.<name>, where it holds one.
Holds(board, f) ==
    /\ board.artifacts.kind = "dict"
    /\ HasKey(board.artifacts, f[2])
    /\ DictGet(board.artifacts, f[2], NullV) # NullV
Held(board, f) == DictGet(board.artifacts, f[2], NullV)
PresentFields ==
    SelectSeq(NonCore(arg.agent_type), LAMBDA f : Holds(arg.board, f))

\* The text a part puts after "<field path>: ".
Rendered(p) == SubSeq(p.text, 5, Len(p.text))
IsPrefixOf(s, t) == Len(s) <= Len(t) /\ SubSeq(t, 1, Len(s)) = s

RenderedAsClaimed(p, v) ==
    IF v.kind = "dict"
    THEN IF HasKey(v, "summary")
         THEN Rendered(p) = StrOf(DictGet(v, "summary", NullV), FALSE)
              /\ p.cut = 0
         ELSE IF HasKey(v, "description")
         THEN Rendered(p) = StrOf(DictGet(v, "description", NullV), FALSE)
              /\ p.cut = 0
         ELSE /\ IsPrefixOf(Rendered(p), StrOf(v, FALSE))
              /\ Width(Rendered(p)) + p.cut <= 200
              /\ (Width(StrOf(v, FALSE)) <= 200 =>
                    Rendered(p) = StrOf(v, FALSE))
    ELSE IF v.kind = "list"
    THEN SubSeq(p.text, 4, Len(p.text))
           = <<": [", ToString(Len(v.items)), " items]">>
    ELSE Rendered(p) = StrOf(v, FALSE) /\ p.cut = 0

\* C22: the extra fields of the sub-agent summary are exactly the non-core
\* field paths of the role table for the agent's role whose value on the
\* board is present, none for an unrecognized role; a dict is rendered as
\* its summary, else its description, else at most 200 characters of its
\* text, a list as its item count, any other value directly; a lookup that
\* meets a missing or non-container segment yields absent.
C22_ExtraFields ==
    AgentReturned =>
      /\ arg.agent_type \notin Roles => ExtraParts = <<>>
      /\ Len(ExtraParts) = Len(PresentFields)
      /\ \A k \in DOMAIN ExtraParts :
           /\ SubSeq(ExtraParts[k].text, 1, 3) = FieldText(PresentFields[k])
           /\ RenderedAsClaimed(ExtraParts[k], Held(arg.board, PresentFields[k]))
      /\ \A k \in DOMAIN NonCore(arg.agent_type) :
           ~Holds(arg.board, NonCore(arg.agent_type)[k]) =>
             extract_nested_field(arg.board, NonCore(arg.agent_type)[k]) = NullV

C22_Witness ==
    /\ AgentReturned
    /\ arg.agent_type = "developer"
    /\ Len(ExtraParts) = 2
    /\ ExtraParts[1].cut > 0
    /\ Held(arg.board, PresentFields[2]).kind = "list"

Compacted == pc = "returned" /\ arg \in CompactArgs

\* A board with the content of each present artifact replaced by one fixed
\* value: what two boards that differ only in such content have in common.
Redact(board) ==
    [board EXCEPT !.artifacts =
       IF board.artifacts.kind = "absent" THEN board.artifacts
       ELSE Dict([i \in DOMAIN board.artifacts.items |->
                    [name |-> board.artifacts.items[i].name,
                     value |-> IF board.artifacts.items[i].value = NullV
                               THEN NullV ELSE StrV("*")]])]
PresentNames(board) ==
    {Items(board.artifacts)[i].name :
       i \in {j \in DOMAIN Items(board.artifacts) :
                Items(board.artifacts)[j].value # NullV}}
ArtifactLines == SelectSeq(ret, LAMBDA l : l[1] = "  Artifacts present: ")
BoardsWithArtifacts == SelectSeq(arg.boards, LAMBDA b : PresentNames(b) # {})

\* The names a line lists: the atoms at the odd places after its heading.
Listed(line) == {line[k] : k \in {j \in 2..Len(line) : j % 2 = 0}}
ContentAtoms == {"", "rotate token-1234", "summary"}

\* C23: the pre-compaction summary depends on a board's artifacts only
\* through the set of names whose value is non-null: it equals the summary
\* of the boards with every present content replaced by one fixed value, it
\* lists exactly the names of the present artifacts and no content.
C23_PresenceOnly ==
    Compacted =>
      /\ ret = build_preservation_context(
                 arg.env.settings,
                 [i \in DOMAIN arg.boards |-> Redact(arg.boards[i])],
                 arg.env.branch, arg.env.worktree_branches)
      /\ Len(ArtifactLines) = Len(BoardsWithArtifacts)
      /\ \A k \in DOMAIN ArtifactLines :
           Listed(ArtifactLines[k]) = PresentNames(BoardsWithArtifacts[k])
      /\ \A k \in DOMAIN ret : \A j \in DOMAIN ret[k] :
           ret[k][j] \notin ContentAtoms

C23_Witness ==
    /\ Compacted
    /\ Len(arg.boards) = 2
    /\ \E i \in DOMAIN Items(arg.boards[1].artifacts) :
         Items(arg.boards[1].artifacts)[i].value = StrV("")
    /\ \E i \in DOMAIN Items(arg.boards[2].artifacts) :
         Items(arg.boards[2].artifacts)[i].value.kind = "dict"
    /\ Len(ArtifactLines) = 2
    /\ ArtifactLines[1] # ArtifactLines[2]

-----------------------------------------------------------------------------
(* Handlers *)

FilesOnDisk == <<settingsFile, gateFile, boardDirs>>
HandlerStep == (pc = "idle" /\ pc' = "done") \/ (pc = "done" /\ pc' = "idle")

\* C24: no handler invocation changes a board file, the settings file or
\* the gate-profile file: a step of a handler, from its start to the end of
\* its process, leaves the files as they are.
C24_ReadOnly == [][HandlerStep => UNCHANGED FilesOnDisk]_vars

C24_Witness ==
    /\ pc = "done"
    /\ run.exit = "ok"
    /\ "hookEventName" \in DOMAIN run.stdout[1]
    /\ run.stdout[1].hookEventName = "SubagentStart"
    /\ settingsFile.json = "object"
    /\ gateFile.json = "value"
    /\ boardDirs["root"].isdir

\* C25: every handler writes exactly one output object and ends without an
\* error, whatever the event input, the settings and gate-profile files and
\* the VCS queries yield.
C25_AlwaysOneOutput == pc = "done" => run.exit = "ok" /\ Len(run.stdout) = 1

-----------------------------------------------------------------------------
(* History *)

RECURSIVE LastClear(_, _)
\* Index of the most recent clear among the first n calls; 0 if none.
LastClear(cs, n) ==
    IF n = 0 THEN 0
    ELSE IF cs[n].method = "clear" THEN n ELSE LastClear(cs, n - 1)

SinceClear(cs) == SubSeq(cs, LastClear(cs, Len(cs)) + 1, Len(cs))

EntryOf(call) ==
    CalculationEntry(call.outcome.method, call.left_operand,
                     call.right_operand, call.outcome.value)

EntriesOf(cs) == [i \in 1..Len(cs) |-> EntryOf(cs[i])]

\* C26: after any sequence of record and clear calls, get_entries returns
\* exactly the entries recorded since the most recent clear (or since
\* creation), in the order they were recorded; after a clear followed by a
\* record it returns one entry.
C26_SinceClear ==
    (ret.kind = "return" /\ ret.method = "get_entries") =>
        /\ ret.value = EntriesOf(SinceClear(calls))
        /\ (/\ Len(calls) >= 2
            /\ calls[Len(calls)].method = "record"
            /\ calls[Len(calls) - 1].method = "clear") => Len(ret.value) = 1

C26_Witness ==
    /\ ret.kind = "return" /\ ret.method = "get_entries"
    /\ Len(calls) = 3
    /\ calls[1].method = "record"
    /\ calls[2].method = "clear"
    /\ calls[3].method = "record"
    /\ calls[1] # calls[3]
    /\ Len(ret.value) = 1


Succeeded(call) == call.outcome.kind = "return"
DivisionsByZero ==
    {i \in DOMAIN calls : calls[i].method = "divide"
                          /\ calls[i].right_operand = 0}

\* C27: on a Calculator with an injected history, the history holds exactly
\* one entry per successful add, subtract, multiply or divide call, in call
\* order, each with the operation name, both operands and the result; a
\* divide by 0 raises ValueError and adds no entry.
C27_OnePerSuccess ==
    _history # None =>
        /\ _entries = EntriesOf(SelectSeq(calls, Succeeded))
        /\ \A i \in DOMAIN calls :
             i \in DivisionsByZero <=>
                 calls[i].outcome = Raises("divide", "ValueError")
        /\ Len(_entries) = Len(calls) - Cardinality(DivisionsByZero)

C27_Witness ==
    /\ _history # None
    /\ Len(calls) = 3
    /\ calls[1].method = "multiply"
    /\ calls[2] = Called("divide", 3, 0, Raises("divide", "ValueError"))
    /\ calls[3] = Called("divide", 3, 2, Returns("divide", TrueDiv(3, 2)))
    /\ Len(_entries) = 2
    /\ _entries[2].result = [num |-> 3, den |-> 2]
    /\ ret.method = "get_entries"
    /\ ret.value = _entries

-----------------------------------------------------------------------------
(* Undetermined branch *)

\* The directories the branch is asked in for the invocation: the worktree of
\* the effective location, if there is one, and the repository root.
Queried ==
    {RepoDir} \cup (IF LocationWorktree = NoneT THEN {} ELSE {LocationWorktree})
NothingReported == \A d \in Queried : vcs[d].kind \in FailureKinds
BranchGrounds == {"edits-on-branch", "commit-on-main", "push-to-main"}

\* C29: when every branch query of the invocation fails (timeout, missing
\* executable, non-zero exit), the branch is nothing, the protection check
\* has no opinion, and no event is denied with a reason that rests on the
\* branch: a deny is the destructive-command deny and an ask is the
\* branch-naming ask.
C29_FailsOpen ==
    (Done /\ NothingReported) =>
      /\ run.exit = "ok"
      /\ run.branch = None
      /\ run.checks[1] = <<"protection", NoOpinion>>
      /\ Len(run.stdout) = 1
      /\ Output.msg \notin BranchGrounds
      /\ Output.decision = "deny" =>
           Terminal /\ HasDestructive /\ Output.msg = "destructive"
      /\ Output.decision = "ask" =>
           Output = CheckBranchNaming(event.tool, Command, Settings)
      /\ (event.tool \in FILE_EDIT_TOOLS \/ (Terminal /\ ~HasDestructive)) =>
           Output.decision # "deny"

C29_Witness ==
    /\ Done /\ Terminal
    /\ vcs[RepoDir].kind = "timeout"
    /\ NothingReported
    /\ LocationWorktree = WtDir("foo")
    /\ vcs[WtDir("foo")].kind = "missing"
    /\ Command = Semi(SegCdWt, SegCommit)
    /\ Output = EmptyOutput

-----------------------------------------------------------------------------
(* The two scans *)

BothReturned ==
    /\ pc = "returned"
    /\ arg \in ScanArgs
    /\ ~ret.current.raise
    /\ ~ret.legacy.raise

\* C30: on every layout on which both scans return, the result of the legacy
\* scan is the leading part of the result of the worktree-aware scan, board
\* for board and path for path, what follows it being the boards of the
\* worktrees; without a worktree container the two results are the same.
C30_LegacyIsRootPart ==
    BothReturned =>
      LET n == Len(ret.legacy.boards) IN
      /\ n <= Len(ret.current.boards)
      /\ ret.legacy.boards = SubSeq(ret.current.boards, 1, n)
      /\ \A i \in (n + 1)..Len(ret.current.boards) :
           ret.current.boards[i]._board_path \in WorktreePaths
      /\ ~arg.worktrees.isdir => ret.legacy.boards = ret.current.boards

\* The same on a platform whose separator is '/'.
LegacyIsRootPartOnSlash == arg.sep = "/" => C30_LegacyIsRootPart

-----------------------------------------------------------------------------
(* The scan among the owners of the boards *)

\* What a board.json holds when it has been written in full.
CompleteRecords ==
    {Board(name, flow_state, AllPresent) :
       name \in {"feat-a", "_archived"}, flow_state \in RaceFlowStates}

\* C28: whatever the owners of the boards do between two steps of a scan
\* (truncate or rewrite a board file, delete a board file, a board
\* directory, the boards directory or a worktree), the scan does not raise,
\* and each board it returns was parsed from a record written in full.
C28_ScanTolerates ==
    /\ pc # "raised"
    /\ pc = "returned" =>
         \A i \in DOMAIN run.boards : run.boards[i].data \in CompleteRecords

====
